---- MODULE Spec2Model ----
(***************************************************************************)
(* A state-machine model of ReactARTFiber.js: the host config that keeps a *)
(* retained ART scene in sync with declared property sets.                 *)
(*                                                                         *)
(* JavaScript values are tagged records ([t |-> typeof, ...]); objects     *)
(* carry an id, so that = on two values is JavaScript's ===.  The ART      *)
(* backend is modelled at its interface: every backend method the source   *)
(* calls is appended to the log `calls`, and the effect the source reads   *)
(* back (transform coefficients, subscription handles) is kept on the      *)
(* instance.  Numbers are integers, on which the arithmetic of the source  *)
(* is exact; the rotation is 0 in every property set, the one angle whose  *)
(* sine and cosine are both integers.                                      *)
(***************************************************************************)
EXTENDS Integers, Sequences, FiniteSets, TLC

VARIABLES
  inst,             \* the ART node with the fields the source attaches to it
  props,            \* the property set last handed to the node's applier
  pooledTransform,  \* the shared scratch transform (source line 29)
  pathDelta,        \* heap: the mutable .delta field of each Path object
  active,           \* backend: subscribe calls minus unsubscribe-handle calls
  childNodes,       \* backend: the children of each container, first to last
  calls,            \* backend calls issued by the last operation, in order
  lastOp,           \* the last operation, with its arguments and outcome
  components        \* the React components of the module that were rendered

vars ==
  <<inst, props, pooledTransform, pathDelta, active, childNodes, calls, lastOp,
    components>>

----------------------------------------------------------------------------
(* JavaScript values *)

Undefined == [t |-> "undefined"]
Null == [t |-> "null"]
Num(n) == [t |-> "number", v |-> n]
Str(s) == [t |-> "string", v |-> s]
Bool(b) == [t |-> "boolean", v |-> b]
Fn(id) == [t |-> "function", id |-> id]
HandlerObj(id) == [t |-> "object", cls |-> "EventListener", id |-> id]
PathObj(id) == [t |-> "object", cls |-> "Path", id |-> id]
ArrayOf(items) == [t |-> "object", cls |-> "Array", items |-> items]
\* an array where the program may hold two arrays of the same contents
ArrayObj(id, items) == [t |-> "object", cls |-> "Array", id |-> id, items |-> items]
FontObj(id, size, style, variant, weight, family) ==
  [t |-> "object", cls |-> "Font", id |-> id, fontSize |-> size,
   fontStyle |-> style, fontVariant |-> variant, fontWeight |-> weight,
   fontFamily |-> family]
TransformObj(xx, yx, xy, yy, x, y) ==
  [t |-> "object", cls |-> "Transform",
   m |-> [xx |-> xx, yx |-> yx, xy |-> xy, yy |-> yy, x |-> x, y |-> y]]

\* x == null
IsNullish(v) == v.t \in {"undefined", "null"}

\* ToBoolean(v), as used by if (v), !v, v || w, v && w
Truthy(v) ==
  CASE v.t \in {"undefined", "null"} -> FALSE
    [] v.t = "number" -> v.v # 0
    [] v.t = "string" -> v.v # ""
    [] v.t = "boolean" -> v.v
    [] OTHER -> TRUE

RECURSIVE JoinText(_), JoinComma(_)

\* ToString(v), as Array.prototype.join applies it to each element: an
\* element that is an array gives its own join with commas, a function its
\* source text, where Fn(id) is the function declared as function f<id>() {}
JoinText(v) ==
  CASE v.t \in {"undefined", "null"} -> ""
    [] v.t = "string" -> v.v
    [] v.t = "number" -> ToString(v.v)
    [] v.t = "boolean" -> IF v.v THEN "true" ELSE "false"
    [] v.t = "function" -> "function f" \o ToString(v.id) \o "() {}"
    [] v.t = "object" /\ v.cls = "Array" -> JoinComma(v.items)
    [] OTHER -> "[object Object]"

\* items.join(',')
JoinComma(items) ==
  IF items = <<>> THEN ""
  ELSE IF Len(items) = 1 THEN JoinText(items[1])
  ELSE JoinText(Head(items)) \o "," \o JoinComma(Tail(items))

RECURSIVE JoinItems(_)
JoinItems(items) ==
  IF items = <<>> THEN ""
  ELSE JoinText(Head(items)) \o JoinItems(Tail(items))

\* v || 0 for a numeric property
NumOrZero(v) == IF Truthy(v) THEN v.v ELSE 0

----------------------------------------------------------------------------
(* Constant tables of the source *)

EVENT_TYPES ==
  <<[prop |-> "onClick", type |-> "click"],
    [prop |-> "onMouseMove", type |-> "mousemove"],
    [prop |-> "onMouseOver", type |-> "mouseover"],
    [prop |-> "onMouseOut", type |-> "mouseout"],
    [prop |-> "onMouseUp", type |-> "mouseup"],
    [prop |-> "onMouseDown", type |-> "mousedown"]>>

EventNames == {EVENT_TYPES[i].type : i \in DOMAIN EVENT_TYPES}

TYPES == {"ClippingRectangle", "Group", "Shape", "Text"}

PropNames ==
  {"x", "y", "rotation", "originX", "originY", "scale", "scaleX", "scaleY",
   "transform", "cursor", "title", "opacity", "visible",
   "onClick", "onMouseMove", "onMouseOver", "onMouseOut", "onMouseUp",
   "onMouseDown", "fill", "stroke", "strokeWidth", "strokeCap", "strokeJoin",
   "strokeDash", "d", "children", "width", "height", "font", "alignment",
   "path"}

\* {} : every property reads as undefined
EmptyProps == [k \in PropNames |-> Undefined]

\* an object literal: the properties of o, the rest absent
PropsOf(o) == [k \in PropNames |-> IF k \in DOMAIN o THEN o[k] ELSE Undefined]

----------------------------------------------------------------------------
(* art/core/transform, as the source uses it on pooledTransform *)

Identity == [xx |-> 1, yx |-> 0, xy |-> 0, yy |-> 1, x |-> 0, y |-> 0]

\* Math.cos(deg * Math.PI / 180) and Math.sin(deg * Math.PI / 180), at the
\* angles where the result is an integer; at the others it is a fraction
\* (Math.cos of 90 degrees is 6.123233995736766e-17, Math.sin of 180 degrees
\* 1.2246467991473532e-16), which the integers here do not hold
Cos(deg) ==
  CASE deg \in {0, 360, -360} -> 1
    [] deg \in {180, -180} -> -1

Sin(deg) ==
  CASE deg = 0 -> 0
    [] deg \in {90, 450} -> 1
    [] deg \in {270, -90} -> -1

\* m.transform(a): post-multiply a onto m
Transform_transform(m, a) ==
  [xx |-> m.xx * a.xx + m.xy * a.yx,
   yx |-> m.yx * a.xx + m.yy * a.yx,
   xy |-> m.xx * a.xy + m.xy * a.yy,
   yy |-> m.yx * a.xy + m.yy * a.yy,
   x |-> m.xx * a.x + m.xy * a.y + m.x,
   y |-> m.yx * a.x + m.yy * a.y + m.y]

Transform_translate(m, x, y) ==
  Transform_transform(m, [Identity EXCEPT !.x = x, !.y = y])

\* m.move(x, y)
Transform_move(m, x, y) == [m EXCEPT !.x = m.x + x, !.y = m.y + y]

\* m.rotate(deg, x, y): about (0, 0) when either origin coordinate is null;
\* it takes both the cosine and the sine of deg
Transform_rotate(m, deg, ox, oy) ==
  LET nul == IsNullish(ox) \/ IsNullish(oy)
      cx == IF nul THEN 0 ELSE ox.v
      cy == IF nul THEN 0 ELSE oy.v
      t == Transform_translate(m, cx, cy)
      r == [xx |-> Cos(deg) * t.xx - Sin(deg) * t.yx,
            yx |-> Sin(deg) * t.xx + Cos(deg) * t.yx,
            xy |-> Cos(deg) * t.xy - Sin(deg) * t.yy,
            yy |-> Sin(deg) * t.xy + Cos(deg) * t.yy,
            x |-> t.x, y |-> t.y]
  IN Transform_translate(r, -cx, -cy)

\* m.scale(x, y): the method takes two arguments; further ones are ignored
Transform_scale(m, sx, sy) ==
  Transform_transform(m, [xx |-> sx, yx |-> 0, xy |-> 0, yy |-> sy,
                          x |-> 0, y |-> 0])

\* as SameCoefficients, comparing the linear part only
SameLinearPart(a, b) ==
  /\ a.xx = b.xx /\ a.yx = b.yx /\ a.xy = b.xy /\ a.yy = b.yy

SameCoefficients(a, b) ==
  /\ a.xx = b.xx /\ a.yx = b.yx /\ a.xy = b.xy
  /\ a.yy = b.yy /\ a.x = b.x /\ a.y = b.y

----------------------------------------------------------------------------
(* Backend call log *)

Call(op, args) == [op |-> op, args |-> args]

\* the running state of one handler: the instance it works on, the backend
\* calls issued so far, the backend's subscription counts for the instance,
\* the scratch transform, and whether an exception has ended the handler
Log(m, op, args) == [m EXCEPT !.calls = Append(@, Call(op, args))]


\* a backend node fresh from Mode.Group(), Mode.Shape(), ...: the identity
\* transform, shown, and none of the fields the source attaches later
NoInstance ==
  [exists |-> FALSE, type |-> "", _applyProps |-> "",
   transform |-> Identity, blend |-> TRUE, shown |-> TRUE,
   container |-> "none",
   _listeners |-> Undefined, _subscriptions |-> Undefined,
   _prevPath |-> Undefined, _prevDelta |-> Undefined,
   _currentString |-> Undefined, width |-> Undefined, height |-> Undefined]

NoActive == [e \in EventNames |-> 0]

Machine(i, act, pooled) ==
  [i |-> i, calls |-> <<>>, act |-> act, pooled |-> pooled, err |-> "none",
   scaleX |-> Undefined, scaleY |-> Undefined, ret |-> Undefined]

----------------------------------------------------------------------------
(* Helper methods *)

EmptyListeners == [t |-> "object", m |-> [e \in EventNames |-> Undefined]]
\* the keys of _subscriptions in insertion order, as for-in visits them; the
\* value under each key is the handle subscribe returned (a function)
EmptySubscriptions == [t |-> "object", keys |-> <<>>]

HasKey(keys, k) == \E j \in DOMAIN keys : keys[j] = k
DeleteKey(keys, k) == SelectSeq(keys, LAMBDA e : e # k)

\* instance.subscribe(type, createEventHandler(instance), instance): the
\* backend registers the dispatcher and returns the handle that removes it
Subscribe(m, type) ==
  [Log(m, "subscribe", <<Str(type)>>) EXCEPT
     !.act[type] = @ + 1,
     !.i._subscriptions.keys = Append(@, type)]

\* instance._subscriptions[type](): the stored handle is invoked
InvokeUnsubscribe(m, type) ==
  [Log(m, "unsubscribe", <<Str(type)>>) EXCEPT !.act[type] = @ - 1]

\* as EnsureTables, the two tables created afresh on every use
EnsureTablesAfresh(m) ==
  [m EXCEPT !.i._listeners = EmptyListeners,
            !.i._subscriptions = EmptySubscriptions]

\* lines 52-55: the two tables are created together on first use
EnsureTables(m) ==
  IF ~Truthy(m.i._listeners)
  THEN [m EXCEPT !.i._listeners = EmptyListeners,
                 !.i._subscriptions = EmptySubscriptions]
  ELSE m

\* as SetListener, keeping the listener a subscription was created with
SetListenerOnce(m, type, listener) ==
  IF Truthy(listener) /\ HasKey(m.i._subscriptions.keys, type)
  THEN m
  ELSE [m EXCEPT !.i._listeners.m[type] = listener]

\* line 57
SetListener(m, type, listener) == [m EXCEPT !.i._listeners.m[type] = listener]

\* as Reconcile, without the check that no subscription exists yet
ReconcileNoGuard(m, type, listener) ==
  IF Truthy(listener)
  THEN Subscribe(m, type)
  ELSE IF HasKey(m.i._subscriptions.keys, type)
       THEN [InvokeUnsubscribe(m, type) EXCEPT
               !.i._subscriptions.keys = DeleteKey(@, type)]
       ELSE m

\* as Reconcile, without the delete of the entry that was unsubscribed
ReconcileNoDelete(m, type, listener) ==
  IF Truthy(listener)
  THEN IF ~HasKey(m.i._subscriptions.keys, type)
       THEN Subscribe(m, type)
       ELSE m
  ELSE IF HasKey(m.i._subscriptions.keys, type)
       THEN InvokeUnsubscribe(m, type)
       ELSE m

\* lines 59-72
Reconcile(m, type, listener) ==
  IF Truthy(listener)
  THEN IF ~HasKey(m.i._subscriptions.keys, type)
       THEN Subscribe(m, type)
       ELSE m
  ELSE IF HasKey(m.i._subscriptions.keys, type)
       THEN [InvokeUnsubscribe(m, type) EXCEPT
               !.i._subscriptions.keys = DeleteKey(@, type)]
       ELSE m

addEventListeners(m, type, listener) ==
  Reconcile(SetListener(EnsureTables(m), type, listener), type, listener)

childrenAsString(children) ==
  IF ~Truthy(children) THEN ""
  ELSE IF children.t = "string" THEN children.v
  ELSE IF children.t = "object" /\ children.cls = "Array"
          /\ Len(children.items) # 0
       THEN JoinItems(children.items)
  ELSE ""

\* listener.handleEvent: defined on the listener objects, on no other value
HasHandleEvent(listener) ==
  listener.t = "object" /\ listener.cls = "EventListener"

\* the function createEventHandler(instance) returns, called by the backend
\* with an event of the given type
handleEvent(m, type) ==
  IF IsNullish(m.i._listeners) THEN [m EXCEPT !.err = "TypeError"]
  ELSE IF ~Truthy(m.i._listeners.m[type]) THEN m
  ELSE IF m.i._listeners.m[type].t = "function"
       THEN Log(m, "listener.call", <<m.i._listeners.m[type], Str(type)>>)
  ELSE IF HasHandleEvent(m.i._listeners.m[type])
       THEN Log(m, "listener.handleEvent", <<m.i._listeners.m[type], Str(type)>>)
  ELSE m

\* the backend delivers an event to a node: it calls every handler that is
\* subscribed for the event's type, k of them
RECURSIVE Emit(_, _, _)
Emit(m, type, k) ==
  IF k = 0 THEN m ELSE Emit(handleEvent(m, type), type, k - 1)

\* for (let type in instance._subscriptions) instance._subscriptions[type]()
RECURSIVE UnsubscribeAll(_, _)
UnsubscribeAll(m, keys) ==
  IF keys = <<>> THEN m
  ELSE UnsubscribeAll(InvokeUnsubscribe(m, Head(keys)), Tail(keys))

\* as ClearTables, with the tables left in place
KeepTables(m) == m

\* lines 108-109
ClearTables(m) == [m EXCEPT !.i._subscriptions = Null, !.i._listeners = Null]

destroyEventListeners(m) ==
  ClearTables(IF Truthy(m.i._subscriptions)
              THEN UnsubscribeAll(m, m.i._subscriptions.keys)
              ELSE m)

\* as getScaleX, with || in place of the != null tests
getScaleXOr(p) ==
  IF Truthy(p.scaleX) THEN p.scaleX
  ELSE IF Truthy(p.scale) THEN p.scale
  ELSE Num(1)

getScaleX(p) ==
  IF ~IsNullish(p.scaleX) THEN p.scaleX
  ELSE IF ~IsNullish(p.scale) THEN p.scale
  ELSE Num(1)

getScaleY(p) ==
  IF ~IsNullish(p.scaleY) THEN p.scaleY
  ELSE IF ~IsNullish(p.scale) THEN p.scale
  ELSE Num(1)

FontFields == {"fontSize", "fontStyle", "fontVariant", "fontWeight", "fontFamily"}

\* font.fontSize, ... : undefined on a value that has no such property
FontField(font, f) ==
  IF font.t = "object" /\ font.cls = "Font" THEN font[f] ELSE Undefined

\* as isSameFont, without the comparison of fontFamily
isSameFontButFamily(oldFont, newFont) ==
  IF oldFont = newFont THEN [throws |-> FALSE, value |-> TRUE]
  ELSE IF newFont.t = "string" \/ oldFont.t = "string"
       THEN [throws |-> FALSE, value |-> FALSE]
  ELSE IF IsNullish(newFont) \/ IsNullish(oldFont)
       THEN [throws |-> TRUE, value |-> FALSE]
  ELSE [throws |-> FALSE,
        value |-> \A f \in FontFields \ {"fontFamily"} :
                    FontField(newFont, f) = FontField(oldFont, f)]

\* [throws, value]: reading a property of null or undefined throws TypeError
isSameFont(oldFont, newFont) ==
  IF oldFont = newFont THEN [throws |-> FALSE, value |-> TRUE]
  ELSE IF newFont.t = "string" \/ oldFont.t = "string"
       THEN [throws |-> FALSE, value |-> FALSE]
  ELSE IF IsNullish(newFont) \/ IsNullish(oldFont)
       THEN [throws |-> TRUE, value |-> FALSE]
  ELSE [throws |-> FALSE,
        value |-> \A f \in FontFields : FontField(newFont, f) = FontField(oldFont, f)]


----------------------------------------------------------------------------
(* Render methods *)

\* the loop over EVENT_TYPES, from entry j on
RECURSIVE ApplyListeners(_, _, _)
ApplyListeners(m, p, j) ==
  IF j > Len(EVENT_TYPES) THEN m
  ELSE ApplyListeners(
         addEventListeners(m, EVENT_TYPES[j].type, p[EVENT_TYPES[j].prop]),
         p, j + 1)

\* the scratch transform after lines 171-179
ComposeTransform(p, scaleX, scaleY) ==
  LET t0 == Identity
      t1 == Transform_move(t0, NumOrZero(p.x), NumOrZero(p.y))
      t2 == Transform_rotate(t1, NumOrZero(p.rotation), p.originX, p.originY)
      t3 == Transform_scale(t2, scaleX.v, scaleY.v)
  IN IF ~IsNullish(p.transform)
     THEN Transform_transform(t3, p.transform.m)
     ELSE t3

Coefficients(t) ==
  <<Num(t.xx), Num(t.yx), Num(t.xy), Num(t.yy), Num(t.x), Num(t.y)>>

\* as SetTransform, without the reset of the scratch transform: the
\* composition goes on from what the scratch transform held
SetTransformIncremental(m, p, pooled) ==
  IF ~SameCoefficients(m.i.transform, Transform_transform(m.pooled, pooled))
  THEN [Log(m, "transformTo", Coefficients(Transform_transform(m.pooled, pooled)))
        EXCEPT !.i.transform = Transform_transform(m.pooled, pooled),
               !.pooled = Transform_transform(m.pooled, pooled),
               !.scaleX = getScaleX(p), !.scaleY = getScaleY(p)]
  ELSE [m EXCEPT !.pooled = Transform_transform(m.pooled, pooled),
                 !.scaleX = getScaleX(p), !.scaleY = getScaleY(p)]

\* lines 168-187: compose into the scratch transform, set it on the node
\* when a coefficient differs
SetTransform(m, p, pooled) ==
  IF ~SameCoefficients(m.i.transform, pooled)
  THEN [Log(m, "transformTo", Coefficients(pooled)) EXCEPT
          !.i.transform = pooled, !.pooled = pooled,
          !.scaleX = getScaleX(p), !.scaleY = getScaleY(p)]
  ELSE [m EXCEPT !.pooled = pooled,
                 !.scaleX = getScaleX(p), !.scaleY = getScaleY(p)]

\* lines 189-194
Indicate(m, p, prevProps) ==
  IF p.cursor # prevProps.cursor \/ p.title # prevProps.title
  THEN Log(m, "indicate", <<p.cursor, p.title>>)
  ELSE m

\* lines 196-201
Blend(m, p, prevProps) ==
  IF m.i.blend /\ p.opacity # prevProps.opacity
  THEN Log(m, "blend", <<IF IsNullish(p.opacity) THEN Num(1) ELSE p.opacity>>)
  ELSE m

\* as ShowOrHide, a null or absent visible taken as any falsy value
ShowOrHideTruthy(m, p, prevProps) ==
  IF p.visible # prevProps.visible
  THEN IF Truthy(p.visible)
       THEN [Log(m, "show", <<>>) EXCEPT !.i.shown = TRUE]
       ELSE [Log(m, "hide", <<>>) EXCEPT !.i.shown = FALSE]
  ELSE m

\* lines 203-209
ShowOrHide(m, p, prevProps) ==
  IF p.visible # prevProps.visible
  THEN IF IsNullish(p.visible) \/ Truthy(p.visible)
       THEN [Log(m, "show", <<>>) EXCEPT !.i.shown = TRUE]
       ELSE [Log(m, "hide", <<>>) EXCEPT !.i.shown = FALSE]
  ELSE m

applyNodeProps(m, p, prevProps) ==
  ApplyListeners(
    ShowOrHide(
      Blend(
        Indicate(
          SetTransform(m, p, ComposeTransform(p, getScaleX(p), getScaleY(p))),
          p, prevProps),
        p, prevProps),
      p, prevProps),
    p, 1)

\* lines 156-157 and 163-164
SetSize(m, p) == [m EXCEPT !.i.width = p.width, !.i.height = p.height]

applyClippingRectangleProps(m, p, prevProps) ==
  SetSize(applyNodeProps(m, p, prevProps), p)

applyGroupProps(m, p, prevProps) ==
  SetSize(applyNodeProps(m, p, prevProps), p)

----------------------------------------------------------------------------
(* Declarative fill-type objects *)

FillClasses == {"LinearGradient", "RadialGradient", "Pattern"}

\* new LinearGradient(...args): this._args = slice.call(arguments)
LinearGradient(id, args) ==
  [t |-> "object", cls |-> "LinearGradient", id |-> id, _args |-> args]
RadialGradient(id, args) ==
  [t |-> "object", cls |-> "RadialGradient", id |-> id, _args |-> args]
Pattern(id, args) ==
  [t |-> "object", cls |-> "Pattern", id |-> id, _args |-> args]

\* f.apply(node, list): an undefined list calls f with no arguments
ApplyArgs(list) == IF IsNullish(list) THEN <<>> ELSE list.items

\* this.args: the descriptors set _args and nothing else
ArgsField(fill) == Undefined

LinearGradient_applyFill(m, fill) ==
  Log(m, "fillLinear", ApplyArgs(ArrayOf(fill._args)))

RadialGradient_applyFill(m, fill) ==
  Log(m, "fillRadial", ApplyArgs(ArgsField(fill)))

Pattern_applyFill(m, fill) ==
  Log(m, "fillImage", ApplyArgs(ArgsField(fill)))

HasApplyFill(fill) == fill.t = "object" /\ fill.cls \in FillClasses

applyFill(m, fill) ==
  CASE fill.cls = "LinearGradient" -> LinearGradient_applyFill(m, fill)
    [] fill.cls = "RadialGradient" -> RadialGradient_applyFill(m, fill)
    [] fill.cls = "Pattern" -> Pattern_applyFill(m, fill)

\* lines 219-225
Fill(m, p, prevProps) ==
  IF prevProps.fill # p.fill
  THEN IF Truthy(p.fill) /\ HasApplyFill(p.fill)
       THEN applyFill(m, p.fill)
       ELSE Log(m, "fill", <<p.fill>>)
  ELSE m

\* a dash array without its identity, the value itself when it is no array
DashItems(v) == IF v.t = "object" THEN ArrayOf(v.items) ELSE v

\* as Stroke, with strokeDash compared by its contents
StrokeDeepDash(m, p, prevProps) ==
  IF \/ prevProps.stroke # p.stroke
     \/ prevProps.strokeWidth # p.strokeWidth
     \/ prevProps.strokeCap # p.strokeCap
     \/ prevProps.strokeJoin # p.strokeJoin
     \/ DashItems(prevProps.strokeDash) # DashItems(p.strokeDash)
  THEN Log(m, "stroke", <<p.stroke, p.strokeWidth, p.strokeCap,
                          p.strokeJoin, p.strokeDash>>)
  ELSE m

\* as Stroke, comparing the stroke value and width only with the path
StrokeWithPath(m, p, prevProps) ==
  IF \/ prevProps.d # p.d
     \/ prevProps.strokeCap # p.strokeCap
     \/ prevProps.strokeJoin # p.strokeJoin
     \/ prevProps.strokeDash # p.strokeDash
  THEN Log(m, "stroke", <<p.stroke, p.strokeWidth, p.strokeCap,
                          p.strokeJoin, p.strokeDash>>)
  ELSE m

\* lines 226-241
Stroke(m, p, prevProps) ==
  IF \/ prevProps.stroke # p.stroke
     \/ prevProps.strokeWidth # p.strokeWidth
     \/ prevProps.strokeCap # p.strokeCap
     \/ prevProps.strokeJoin # p.strokeJoin
     \/ prevProps.strokeDash # p.strokeDash
  THEN Log(m, "stroke", <<p.stroke, p.strokeWidth, p.strokeCap,
                          p.strokeJoin, p.strokeDash>>)
  ELSE m

applyRenderableNodeProps(m, p, prevProps) ==
  Stroke(Fill(applyNodeProps(m, p, prevProps), p, prevProps), p, prevProps)

\* path.delta: the heap field of a Path object, undefined on anything else
DeltaOf(path) ==
  IF path.t = "object" /\ path.cls = "Path" THEN pathDelta[path.id]
  ELSE Undefined

\* props.d || childrenAsString(props.children)
ResolvedPath(p) == IF Truthy(p.d) THEN p.d ELSE Str(childrenAsString(p.children))

\* as DrawShape, without the comparison of the delta marker
DrawShapeNoDelta(m, p, prevProps) ==
  IF \/ ResolvedPath(p) # m.i._prevPath
     \/ prevProps.height # p.height
     \/ prevProps.width # p.width
  THEN [Log(m, "draw", <<ResolvedPath(p), p.strokeWidth, p.stroke>>) EXCEPT
          !.i._prevDelta = DeltaOf(ResolvedPath(p)),
          !.i._prevPath = ResolvedPath(p)]
  ELSE m

\* as DrawShape, without caching the path that was drawn
DrawShapeNoCache(m, p, prevProps) ==
  IF \/ ResolvedPath(p) # m.i._prevPath
     \/ DeltaOf(ResolvedPath(p)) # m.i._prevDelta
     \/ prevProps.height # p.height
     \/ prevProps.width # p.width
  THEN [Log(m, "draw", <<ResolvedPath(p), p.strokeWidth, p.stroke>>) EXCEPT
          !.i._prevDelta = DeltaOf(ResolvedPath(p))]
  ELSE m

\* lines 247-266
DrawShape(m, p, prevProps) ==
  IF \/ ResolvedPath(p) # m.i._prevPath
     \/ DeltaOf(ResolvedPath(p)) # m.i._prevDelta
     \/ prevProps.height # p.height
     \/ prevProps.width # p.width
  THEN [Log(m, "draw", <<ResolvedPath(p), p.strokeWidth, p.stroke>>) EXCEPT
          !.i._prevDelta = DeltaOf(ResolvedPath(p)),
          !.i._prevPath = ResolvedPath(p)]
  ELSE m

applyShapeProps(m, p, prevProps) ==
  DrawShape(applyRenderableNodeProps(m, p, prevProps), p, prevProps)

ResolvedString(p) == Str(childrenAsString(p.children))

\* lines 279-286
Redraw(m, p) ==
  [Log(m, "draw", <<ResolvedString(p), p.font, p.alignment, p.path>>) EXCEPT
     !.i._currentString = ResolvedString(p)]

\* lines 272-287: the condition is evaluated left to right
DrawText(m, p, prevProps) ==
  IF m.i._currentString # ResolvedString(p) THEN Redraw(m, p)
  ELSE IF isSameFont(p.font, prevProps.font).throws
       THEN [m EXCEPT !.err = "TypeError"]
  ELSE IF ~isSameFont(p.font, prevProps.font).value THEN Redraw(m, p)
  ELSE IF p.alignment # prevProps.alignment \/ p.path # prevProps.path
       THEN Redraw(m, p)
  ELSE m

applyTextProps(m, p, prevProps) ==
  DrawText(applyRenderableNodeProps(m, p, prevProps), p, prevProps)

\* instance._applyProps(instance, props, prevProps)
ApplyProps(m, p, prevProps) ==
  CASE m.i._applyProps = "applyClippingRectangleProps" ->
         applyClippingRectangleProps(m, p, prevProps)
    [] m.i._applyProps = "applyGroupProps" -> applyGroupProps(m, p, prevProps)
    [] m.i._applyProps = "applyShapeProps" -> applyShapeProps(m, p, prevProps)
    [] m.i._applyProps = "applyTextProps" -> applyTextProps(m, p, prevProps)


----------------------------------------------------------------------------
(* ART renderer: the host config *)

\* as NewInstance, with a default case that makes a group
NewInstanceOrGroup(type, p) ==
  CASE type = "ClippingRectangle" ->
         [call |-> Call("Mode.ClippingRectangle", <<>>),
          _applyProps |-> "applyClippingRectangleProps"]
    [] type = "Shape" ->
         [call |-> Call("Mode.Shape", <<>>), _applyProps |-> "applyShapeProps"]
    [] type = "Text" ->
         [call |-> Call("Mode.Text", <<Str(childrenAsString(p.children)),
                                        p.font, p.alignment, p.path>>),
          _applyProps |-> "applyTextProps"]
    [] OTHER ->
         [call |-> Call("Mode.Group", <<>>), _applyProps |-> "applyGroupProps"]

\* The switch of createInstance: the backend constructor call and the
\* applier bound to the new node; no applier for any other type
NewInstance(type, p) ==
  CASE type = "ClippingRectangle" ->
         [call |-> Call("Mode.ClippingRectangle", <<>>),
          _applyProps |-> "applyClippingRectangleProps"]
    [] type = "Group" ->
         [call |-> Call("Mode.Group", <<>>), _applyProps |-> "applyGroupProps"]
    [] type = "Shape" ->
         [call |-> Call("Mode.Shape", <<>>), _applyProps |-> "applyShapeProps"]
    [] type = "Text" ->
         [call |-> Call("Mode.Text", <<Str(childrenAsString(p.children)),
                                        p.font, p.alignment, p.path>>),
          _applyProps |-> "applyTextProps"]
    [] OTHER -> [call |-> Call("none", <<>>), _applyProps |-> ""]

\* lines 540-564: the node as the backend constructor returns it
Construct(type, p, pooled) ==
  [Machine([NoInstance EXCEPT !.exists = TRUE, !.type = type,
                              !._applyProps = NewInstance(type, p)._applyProps],
           NoActive, pooled)
   EXCEPT !.calls = <<NewInstance(type, p).call>>]

\* as createInstance, the applier run against the new property set itself
createInstanceAgainstItself(type, p, pooled) ==
  IF NewInstance(type, p)._applyProps = ""
  THEN [Machine(NoInstance, NoActive, pooled) EXCEPT
          !.err = "Invariant Violation"]
  ELSE ApplyProps(Construct(type, p, pooled), p, p)

\* createInstance(type, props): the machine after the call; err is set and
\* no instance exists when the invariant on the type fails.
createInstance(type, p, pooled) ==
  IF NewInstance(type, p)._applyProps = ""
  THEN [Machine(NoInstance, NoActive, pooled) EXCEPT
          !.err = "Invariant Violation"]
  ELSE ApplyProps(Construct(type, p, pooled), p, EmptyProps)

\* child.eject()
Eject(m) == [Log(m, "eject", <<>>) EXCEPT !.i.container = "none"]

\* child.inject(parentInstance): the node leaves its container, if any, and
\* becomes the last child of parentInstance
Inject(m, parent) == [Log(m, "inject", <<Str(parent)>>) EXCEPT !.i.container = parent]

appendChildToContainer(m, parent) ==
  Inject(IF m.i.container = parent THEN Eject(m) ELSE m, parent)

removeChild(m) == Eject(destroyEventListeners(m))

removeChildFromContainer(m) == Eject(destroyEventListeners(m))

\* as commitUpdate, choosing the applier by the kind it is handed
commitUpdateByType(m, type, oldProps, newProps) ==
  ApplyProps([m EXCEPT !.i._applyProps = NewInstance(type, newProps)._applyProps],
             newProps, oldProps)

commitUpdate(m, type, oldProps, newProps) == ApplyProps(m, newProps, oldProps)

\* a scene node as a JavaScript value
NodeRef(n) == [t |-> "object", cls |-> "Node", id |-> n]

\* as appendChild, without the eject from the same parent
appendChildNoEject(m, parent) == Inject(m, parent)

appendChild(m, parent) ==
  Inject(IF m.i.container = parent THEN Eject(m) ELSE m, parent)

\* as appendInitialChild, without the test for a string child
appendInitialChildUntested(m, parent, child) == Inject(m, parent)

appendInitialChild(m, parent, child) ==
  IF child.t = "string" THEN m ELSE Inject(m, parent)

createTextInstance(m, text) == [m EXCEPT !.ret = text]

\* child.injectBefore(beforeChild): the node leaves its container, if any,
\* and enters beforeChild's container, if that node has one
InjectBefore(m, child, beforeChild) ==
  [Log(m, "injectBefore", <<Str(beforeChild)>>) EXCEPT
     !.i.container = IF beforeChild = child THEN "none"
                     ELSE inst[beforeChild].container]

\* as insertBefore, without the invariant
insertBeforeUnchecked(m, parent, child, beforeChild) ==
  InjectBefore(m, child, beforeChild)

insertBefore(m, parent, child, beforeChild) ==
  IF child = beforeChild
  THEN [m EXCEPT !.err = "Invariant Violation"]
  ELSE InjectBefore(m, child, beforeChild)

\* lines 611-616
shouldSetTextContent(m, p) ==
  [m EXCEPT !.ret = Bool(p.children.t = "string" \/ p.children.t = "number")]

commitTextUpdate(m, oldText, newText) == m

commitMount(m, type, newProps) == m

resetTextContent(m) == m

----------------------------------------------------------------------------
(* React components: Surface, Shape and Group.  A component is the record  *)
(* `this` with its props and the fields the source sets on it; its         *)
(* lifecycle methods work on the pair of the component and the machine of  *)
(* the backend node it holds.                                              *)

\* +v where v is a number, null, undefined, a boolean or the empty string
NaN == [t |-> "number", nan |-> TRUE]

ToNumber(v) ==
  CASE v.t = "number" -> v
    [] v.t = "null" -> Num(0)
    [] v.t = "undefined" -> NaN
    [] v.t = "boolean" -> Num(IF v.v THEN 1 ELSE 0)
    [] v.t = "string" /\ v.v = "" -> Num(0)

\* an object literal {path: path}
DataObj(id, path) == [t |-> "object", cls |-> "Object", id |-> id, path |-> path]

\* d.path where d is not null or undefined: the path data an ART Path
\* holds, the property of an object literal, undefined on any other value
PathField(d) ==
  IF d.t = "object" /\ d.cls = "Path"
  THEN [t |-> "object", cls |-> "PathData", id |-> d.id]
  ELSE IF d.t = "object" /\ d.cls = "Object" THEN d.path
  ELSE Undefined

\* p[k] of a property set that may hold more or fewer properties
Get(p, k) == IF k \in DOMAIN p THEN p[k] ELSE Undefined

\* a component before React has rendered it: frames counts the callbacks it
\* has handed to window.requestAnimationFrame that have not run yet, and
\* hasRender is whether the backend's surface has a render method, hasDraw
\* whether the backend's shape has a draw method
NoComponent ==
  [kind |-> "", props |-> EmptyProps, mounted |-> FALSE,
   _tagRef |-> Undefined, node |-> Undefined, _mountNode |-> Undefined,
   frames |-> 0, hasRender |-> FALSE, hasDraw |-> FALSE]

\* the backend node as Mode.Surface, Mode.Shape or Mode.Group returns it to a
\* component: no applier is attached to it
NewNode(type, call, pooled) ==
  [Machine([NoInstance EXCEPT !.exists = TRUE, !.type = type], NoActive, pooled)
   EXCEPT !.calls = <<call>>]

\* this._mountNode = ARTRenderer.createContainer(node)
CreateContainer(k, c) ==
  [k EXCEPT !.m = Log(@, "ARTRenderer.createContainer", <<NodeRef(c)>>),
            !.this._mountNode = [t |-> "object", cls |-> "Container", id |-> c]]

\* ARTRenderer.updateContainer(children, this._mountNode, this)
UpdateContainer(k, children) ==
  [k EXCEPT !.m = Log(@, "ARTRenderer.updateContainer",
                      <<children, k.this._mountNode>>)]

\* window.requestAnimationFrame(() => ARTRenderer.updateContainer(...))
RequestFrame(k) ==
  [k EXCEPT !.m = Log(@, "window.requestAnimationFrame", <<>>),
            !.this.frames = @ + 1]

\* lines 327-338
Surface_componentDidMount(this, c, pooled) ==
  UpdateContainer(
    CreateContainer(
      [this |-> [this EXCEPT !.node = NodeRef(c)],
       m |-> NewNode("Surface",
                     Call("Mode.Surface", <<ToNumber(this.props.width),
                                            ToNumber(this.props.height),
                                            this._tagRef>>),
                     pooled)],
      c),
    this.props.children)

\* lines 343-348: this._surface.resize when the size changed
Resize(k, prevProps) ==
  IF k.this.props.height = prevProps.height
     /\ k.this.props.width = prevProps.width
  THEN k
  ELSE IF k.this.node = Undefined
  THEN [k EXCEPT !.m.err = "TypeError"]
  ELSE [k EXCEPT !.m = Log(@, "resize", <<ToNumber(k.this.props.width),
                                          ToNumber(k.this.props.height)>>)]

\* lines 358-360: this._surface.render, when the backend's surface has one
RenderSurface(k) ==
  IF k.this.node = Undefined THEN [k EXCEPT !.m.err = "TypeError"]
  ELSE IF k.this.hasRender THEN [k EXCEPT !.m = Log(@, "render", <<>>)]
  ELSE k

\* lines 340-361
Surface_componentDidUpdate(k, prevProps) ==
  IF Resize(k, prevProps).m.err # "none"
  THEN Resize(k, prevProps)
  ELSE RenderSurface(RequestFrame(Resize(k, prevProps)))

\* lines 363-369
Surface_componentWillUnmount(k) == UpdateContainer(k, Null)

\* lines 371-393: the element render returns; Tag is Mode.Surface.tagName
Surface_render(this) ==
  [err |-> "none",
   ret |-> [t |-> "object", cls |-> "ReactElement", type |-> "Mode.Surface.tagName",
            props |-> [k \in {"accessKey", "className", "draggable", "role",
                              "style", "tabIndex", "title"}
                         |-> Get(this.props, k)]]]

\* lines 397-406: this.props.d.path is read first
Shape_componentDidMount(this, c, pooled) ==
  IF IsNullish(this.props.d)
  THEN [this |-> this,
        m |-> [Machine(NoInstance, NoActive, pooled) EXCEPT !.err = "TypeError"]]
  ELSE UpdateContainer(
         CreateContainer(
           [this |-> [this EXCEPT !.node = NodeRef(c)],
            m |-> NewNode("Shape",
                          Call("Mode.Shape", <<PathField(this.props.d),
                                               this.props.strokeWidth,
                                               this.props.stroke,
                                               this._tagRef>>),
                          pooled)],
           c),
         this.props.children)

\* lines 408-410
Shape_shouldComponentUpdate(this, newProps) == this.props.d # newProps.d

\* lines 413-427: the callback is handed over first; then this.shape.draw is
\* tested, and this.props.d.path is read only when the backend's shape has it
Shape_componentDidUpdate(k, prevProps) ==
  IF k.this.node = Undefined
  THEN [RequestFrame(k) EXCEPT !.m.err = "TypeError"]
  ELSE IF ~k.this.hasDraw THEN RequestFrame(k)
  ELSE IF IsNullish(k.this.props.d)
  THEN [RequestFrame(k) EXCEPT !.m.err = "TypeError"]
  ELSE [RequestFrame(k) EXCEPT
          !.m = Log(@, "draw", <<PathField(k.this.props.d),
                                 k.this.props.strokeWidth,
                                 k.this.props.stroke>>)]

\* lines 429-435
Shape_componentWillUnmount(k) == UpdateContainer(k, Null)

\* lines 437-462: props.d.path is read for the element
Shape_render(this) ==
  IF IsNullish(this.props.d)
  THEN [err |-> "TypeError", ret |-> Undefined]
  ELSE [err |-> "none",
        ret |-> [t |-> "object", cls |-> "ReactElement",
                 type |-> "Mode.Shape.tagName",
                 props |-> [k \in {"accessKey", "className", "draggable",
                                   "role", "style", "tabIndex", "title",
                                   "stroke", "strokeWidth", "d"}
                              |-> IF k = "d" THEN PathField(this.props.d)
                                  ELSE Get(this.props, k)]]]

\* lines 466-476: the group props are applied with no previous property set
Group_componentDidMount(this, c, pooled) ==
  UpdateContainer(
    CreateContainer(
      [this |-> [this EXCEPT !.node = NodeRef(c)],
       m |-> applyGroupProps(
               NewNode("Group",
                       Call("Mode.Group", <<this.props.width, this.props.height,
                                            this._tagRef>>),
                       pooled),
               this.props, EmptyProps)],
      c),
    this.props.children)

\* lines 478-486
Group_componentDidUpdate(k, prevProps) == RequestFrame(k)

\* lines 488-494
Group_componentWillUnmount(k) == UpdateContainer(k, Null)

\* lines 496-523
Group_render(this) ==
  [err |-> "none",
   ret |-> [t |-> "object", cls |-> "ReactElement", type |-> "Mode.Group.tagName",
            props |-> [k \in {"accessKey", "className", "draggable", "role",
                              "style", "tabIndex", "title", "rotation",
                              "originX", "originY", "children"}
                         |-> Get(this.props, k)]]]

\* the methods of a component of the given kind
componentDidMount(this, c, pooled) ==
  CASE this.kind = "Surface" -> Surface_componentDidMount(this, c, pooled)
    [] this.kind = "Shape" -> Shape_componentDidMount(this, c, pooled)
    [] this.kind = "Group" -> Group_componentDidMount(this, c, pooled)

componentDidUpdate(k, prevProps) ==
  CASE k.this.kind = "Surface" -> Surface_componentDidUpdate(k, prevProps)
    [] k.this.kind = "Shape" -> Shape_componentDidUpdate(k, prevProps)
    [] k.this.kind = "Group" -> Group_componentDidUpdate(k, prevProps)

componentWillUnmount(k) ==
  CASE k.this.kind = "Surface" -> Surface_componentWillUnmount(k)
    [] k.this.kind = "Shape" -> Shape_componentWillUnmount(k)
    [] k.this.kind = "Group" -> Group_componentWillUnmount(k)

render(this) ==
  CASE this.kind = "Surface" -> Surface_render(this)
    [] this.kind = "Shape" -> Shape_render(this)
    [] this.kind = "Group" -> Group_render(this)

----------------------------------------------------------------------------
(* The backend's tree: what eject, inject and injectBefore do to the child *)
(* lists.  A node is in at most one list, at most once.                    *)

\* the node leaves the list it is in, if any
Detached(lists, c) ==
  [k \in DOMAIN lists |-> SelectSeq(lists[k], LAMBDA e : e # c)]

\* inject(container): the node leaves its place and becomes the last child
Appended(lists, parent, c) ==
  [Detached(lists, c) EXCEPT ![parent] = Append(@, c)]

\* the list with c put right before position j
PutBefore(list, j, c) ==
  SubSeq(list, 1, j - 1) \o <<c>> \o SubSeq(list, j, Len(list))

\* injectBefore(sibling): the node leaves its place and is put right before
\* sibling in sibling's container; it stays out when sibling has none
InsertedBefore(lists, c, sibling) ==
  [k \in DOMAIN lists |->
     IF \E j \in DOMAIN Detached(lists, c)[k] :
          Detached(lists, c)[k][j] = sibling
     THEN PutBefore(Detached(lists, c)[k],
                    CHOOSE j \in DOMAIN Detached(lists, c)[k] :
                      Detached(lists, c)[k][j] = sibling,
                    c)
     ELSE Detached(lists, c)[k]]

\* the child lists after the placement calls a handler made on node c
RECURSIVE Place(_, _, _)
Place(lists, c, log) ==
  IF log = <<>> THEN lists
  ELSE Place(CASE Head(log).op = "eject" -> Detached(lists, c)
               [] Head(log).op = "inject" ->
                    Appended(lists, Head(log).args[1].v, c)
               [] Head(log).op = "injectBefore" ->
                    InsertedBefore(lists, c, Head(log).args[1].v)
               [] OTHER -> lists,
             c, Tail(log))

----------------------------------------------------------------------------
(* The state machine *)

Nodes == {"n1"}
PathIds == {"pathA", "pathB"}
Surface == "surface"
Components == {"c1"}
\* the callbacks a component may have waiting for an animation frame
MaxFrames == 2

Op(op, n, type, new, old, m) ==
  [op |-> op, node |-> n, type |-> type, new |-> new, old |-> old,
   err |-> m.err, scaleX |-> m.scaleX, scaleY |-> m.scaleY, ret |-> m.ret,
   parent |-> "none", before |-> "none", arg |-> Undefined,
   from |-> IF n \in DOMAIN inst THEN inst[n].container ELSE "none"]

\* the state after construction, over the nodes the reconciler will create
InitOver(S) ==
  /\ inst = [n \in S |-> NoInstance]
  /\ props = [n \in S |-> EmptyProps]
  /\ pooledTransform = Identity
  /\ pathDelta = [i \in PathIds |-> Undefined]
  /\ active = [n \in S |-> NoActive]
  /\ childNodes = [c \in S \cup {Surface} |-> <<>>]
  /\ calls = <<>>
  /\ lastOp = Op("init", "none", "", EmptyProps, EmptyProps,
                 Machine(NoInstance, NoActive, Identity))
  /\ components = [c \in Components |-> NoComponent]

Init == InitOver(Nodes)

\* what a handler leaves behind on the backend node it worked on
CommitNode(n, m, op) ==
  /\ inst' = [inst EXCEPT ![n] = m.i]
  /\ active' = [active EXCEPT ![n] = m.act]
  /\ pooledTransform' = m.pooled
  /\ childNodes' = Place(childNodes, n, m.calls)
  /\ calls' = m.calls
  /\ lastOp' = op

\* what a handler of the host config leaves behind
Commit(n, m, op) == CommitNode(n, m, op) /\ UNCHANGED components

CreateInstance(n, type, p) ==
  /\ ~inst[n].exists
  /\ LET m == createInstance(type, p, pooledTransform)
     IN /\ Commit(n, m, Op("createInstance", n, type, p, EmptyProps, m))
        /\ props' = [props EXCEPT ![n] = IF m.i.exists THEN p ELSE @]
  /\ UNCHANGED pathDelta

\* the reconciler hands the applier the property set it applied last
CommitUpdate(n, type, p) ==
  /\ inst[n].exists
  /\ LET m == commitUpdate(Machine(inst[n], active[n], pooledTransform),
                           type, props[n], p)
     IN Commit(n, m, Op("commitUpdate", n, type, p, props[n], m))
  /\ props' = [props EXCEPT ![n] = p]
  /\ UNCHANGED pathDelta

AppendChildToContainer(n) ==
  /\ inst[n].exists
  /\ LET m == appendChildToContainer(
                Machine(inst[n], active[n], pooledTransform), Surface)
     IN Commit(n, m, [Op("appendChildToContainer", n, inst[n].type, props[n],
                         props[n], m) EXCEPT !.parent = Surface])
  /\ UNCHANGED <<props, pathDelta>>

RemoveChild(n) ==
  /\ inst[n].exists
  /\ LET m == removeChild(Machine(inst[n], active[n], pooledTransform))
     IN Commit(n, m, Op("removeChild", n, inst[n].type, props[n], props[n], m))
  /\ UNCHANGED <<props, pathDelta>>

RemoveChildFromContainer(n) ==
  /\ inst[n].exists
  /\ LET m == removeChildFromContainer(
                Machine(inst[n], active[n], pooledTransform))
     IN Commit(n, m, Op("removeChildFromContainer", n, inst[n].type, props[n],
                        props[n], m))
  /\ UNCHANGED <<props, pathDelta>>

\* what a handler that works on no node leaves behind
CommitNone(m, op) ==
  /\ pooledTransform' = m.pooled
  /\ calls' = m.calls
  /\ lastOp' = op
  /\ UNCHANGED <<inst, props, pathDelta, active, childNodes, components>>

\* n is a, or is below a in the tree
RECURSIVE Within(_, _)
Within(n, a) ==
  \/ n = a
  \/ inst[n].container \in DOMAIN inst /\ Within(inst[n].container, a)

\* a tree operation as lastOp records it, with the value it was handed
TreeOp(op, n, parent, before, child, m) ==
  [Op(op, n, IF n \in DOMAIN inst THEN inst[n].type ELSE "",
      EmptyProps, EmptyProps, m)
   EXCEPT !.parent = parent, !.before = before, !.arg = child]

\* the backend delivers an event to a node that is subscribed for its type
Deliver(n, type) ==
  /\ inst[n].exists
  /\ active[n][type] > 0
  /\ LET m == Emit(Machine(inst[n], active[n], pooledTransform), type,
                   active[n][type])
     IN Commit(n, m, TreeOp("deliver", n, "none", "none", Str(type), m))
  /\ UNCHANGED <<props, pathDelta>>

\* the backend calls a dispatcher with an event that was emitted while the
\* node was subscribed for its type, after the last operation on the node
\* has invoked the unsubscribe handle of that subscription
DeliverInFlight(n, type) ==
  /\ inst[n].exists
  /\ lastOp.node = n
  /\ \E j \in DOMAIN calls : calls[j] = Call("unsubscribe", <<Str(type)>>)
  /\ LET m == handleEvent(Machine(inst[n], active[n], pooledTransform), type)
     IN Commit(n, m, TreeOp("deliverInFlight", n, "none", "none", Str(type), m))
  /\ UNCHANGED <<props, pathDelta>>

\* the reconciler appends under a node that is not inside the child
AppendChild(parent, n) ==
  /\ inst[n].exists /\ inst[parent].exists
  /\ ~Within(parent, n)
  /\ LET m == appendChild(Machine(inst[n], active[n], pooledTransform), parent)
     IN Commit(n, m, TreeOp("appendChild", n, parent, "none", NodeRef(n), m))
  /\ UNCHANGED <<props, pathDelta>>

\* child is a string (a text instance) or a node
AppendInitialChild(parent, child) ==
  /\ inst[parent].exists
  /\ IF child.t = "string"
     THEN LET m == appendInitialChild(
                     Machine(NoInstance, NoActive, pooledTransform), parent, child)
          IN CommitNone(m, TreeOp("appendInitialChild", "none", parent, "none",
                                  child, m))
     ELSE /\ inst[child.id].exists
          /\ ~Within(parent, child.id)
          /\ LET m == appendInitialChild(
                         Machine(inst[child.id], active[child.id], pooledTransform),
                         parent, child)
             IN Commit(child.id, m,
                       TreeOp("appendInitialChild", child.id, parent, "none",
                              child, m))
          /\ UNCHANGED <<props, pathDelta>>

\* the reference child is a child of parent, unless it is the child itself
InsertBefore(parent, n, before) ==
  /\ inst[n].exists /\ inst[before].exists
  /\ parent \in DOMAIN childNodes
  /\ parent \in DOMAIN inst => inst[parent].exists /\ ~Within(parent, n)
  /\ before # n => inst[before].container = parent
  /\ LET m == insertBefore(Machine(inst[n], active[n], pooledTransform),
                           parent, n, before)
     IN Commit(n, m, TreeOp("insertBefore", n, parent, before, NodeRef(n), m))
  /\ UNCHANGED <<props, pathDelta>>

CommitTextUpdate(oldText, newText) ==
  LET m == commitTextUpdate(Machine(NoInstance, NoActive, pooledTransform),
                            oldText, newText)
  IN CommitNone(m, TreeOp("commitTextUpdate", "none", "none", "none",
                          newText, m))

CommitMount(n) ==
  /\ inst[n].exists
  /\ LET m == commitMount(Machine(inst[n], active[n], pooledTransform),
                          inst[n].type, props[n])
     IN Commit(n, m, TreeOp("commitMount", n, "none", "none", NodeRef(n), m))
  /\ UNCHANGED <<props, pathDelta>>

ResetTextContent(n) ==
  /\ inst[n].exists
  /\ LET m == resetTextContent(Machine(inst[n], active[n], pooledTransform))
     IN Commit(n, m, TreeOp("resetTextContent", n, "none", "none", NodeRef(n), m))
  /\ UNCHANGED <<props, pathDelta>>

CreateTextInstance(text) ==
  LET m == createTextInstance(Machine(NoInstance, NoActive, pooledTransform), text)
  IN CommitNone(m, TreeOp("createTextInstance", "none", "none", "none", text, m))

\* the reconciler asks whether a property set declares a text leaf
ShouldSetTextContent(p) ==
  LET m == shouldSetTextContent(Machine(NoInstance, NoActive, pooledTransform), p)
  IN CommitNone(m, Op("shouldSetTextContent", "none", "", p, EmptyProps, m))

\* what a lifecycle step that touches no backend node leaves behind
CommitComponent(c, this, op) ==
  /\ components' = [components EXCEPT ![c] = this]
  /\ calls' = <<>>
  /\ lastOp' = op
  /\ UNCHANGED <<inst, props, pooledTransform, pathDelta, active, childNodes>>

\* React constructs a component of the module with its props and calls
\* render; when render returns, React creates the element and hands it to
\* the ref callback of render (ref => this._tagRef = ref)
RenderComponent(c, kind, p) ==
  /\ components[c].kind = ""
  /\ LET this == [NoComponent EXCEPT !.kind = kind, !.props = p]
     IN CommitComponent(
          c,
          IF render(this).err = "none"
          THEN [this EXCEPT !._tagRef = [t |-> "object", cls |-> "Element", id |-> c]]
          ELSE NoComponent,
          Op(kind \o ".render", c, kind, p, EmptyProps,
             [Machine(NoInstance, NoActive, pooledTransform) EXCEPT
                !.err = render(this).err, !.ret = render(this).ret]))

\* React calls componentDidMount once, after the ref callback; hasRender and
\* hasDraw are what the backend's surface and shape turn out to offer
ComponentDidMount(c, hasRender, hasDraw) ==
  /\ components[c].kind # ""
  /\ ~components[c].mounted /\ components[c].node = Undefined
  /\ hasRender => components[c].kind = "Surface"
  /\ hasDraw => components[c].kind = "Shape"
  /\ LET k == componentDidMount([components[c] EXCEPT !.hasRender = hasRender,
                                                      !.hasDraw = hasDraw],
                                c, pooledTransform)
     IN /\ CommitNode(c, k.m,
                      Op(components[c].kind \o ".componentDidMount", c,
                         components[c].kind, components[c].props, EmptyProps,
                         k.m))
        /\ components' =
             [components EXCEPT ![c] = [k.this EXCEPT !.mounted = (k.m.err = "none")]]
  /\ props' = [props EXCEPT ![c] = IF components[c].kind = "Group"
                                    THEN components[c].props ELSE @]
  /\ UNCHANGED pathDelta

\* React hands a mounted component new props: a Shape is first asked
\* shouldComponentUpdate; then this.props is set and render is called again;
\* when render throws the update ends there, and when it returns
\* componentDidUpdate is called with the previous props
ComponentUpdate(c, p) ==
  /\ components[c].mounted
  /\ IF components[c].kind = "Shape"
        /\ ~Shape_shouldComponentUpdate(components[c], p)
     THEN CommitComponent(
            c, [components[c] EXCEPT !.props = p],
            Op("Shape.shouldComponentUpdate", c, "Shape", p, components[c].props,
               [Machine(NoInstance, NoActive, pooledTransform) EXCEPT
                  !.ret = Bool(FALSE)]))
     ELSE IF render([components[c] EXCEPT !.props = p]).err # "none"
     THEN CommitComponent(
            c, [components[c] EXCEPT !.props = p],
            Op(components[c].kind \o ".render", c, components[c].kind, p,
               components[c].props,
               [Machine(NoInstance, NoActive, pooledTransform) EXCEPT
                  !.err = render([components[c] EXCEPT !.props = p]).err]))
     ELSE /\ components[c].frames < MaxFrames
          /\ LET k == componentDidUpdate(
                        [this |-> [components[c] EXCEPT !.props = p],
                         m |-> Machine(inst[c], active[c], pooledTransform)],
                        components[c].props)
             IN /\ CommitNode(c, k.m,
                              Op(components[c].kind \o ".componentDidUpdate", c,
                                 components[c].kind, p, components[c].props, k.m))
                /\ components' = [components EXCEPT ![c] = k.this]
          /\ UNCHANGED <<props, pathDelta>>

\* React unmounts the component
ComponentWillUnmount(c) ==
  /\ components[c].mounted
  /\ LET k == componentWillUnmount(
                [this |-> components[c],
                 m |-> Machine(inst[c], active[c], pooledTransform)])
     IN /\ CommitNode(c, k.m,
                      Op(components[c].kind \o ".componentWillUnmount", c,
                         components[c].kind, components[c].props,
                         components[c].props, k.m))
        /\ components' = [components EXCEPT ![c] = [k.this EXCEPT !.mounted = FALSE]]
  /\ UNCHANGED <<props, pathDelta>>

\* the browser runs a callback a componentDidUpdate handed to
\* window.requestAnimationFrame: it reads this.props as they are by then
AnimationFrame(c) ==
  /\ components[c].frames > 0
  /\ LET k == UpdateContainer(
                [this |-> components[c],
                 m |-> Machine(inst[c], active[c], pooledTransform)],
                components[c].props.children)
     IN /\ CommitNode(c, k.m,
                      Op("animationFrame", c, components[c].kind,
                         components[c].props, components[c].props, k.m))
        /\ components' = [components EXCEPT ![c] = [k.this EXCEPT !.frames = @ - 1]]
  /\ UNCHANGED <<props, pathDelta>>

\* the application appends to a Path object it holds: its delta marker moves
MutatePath(id, delta) ==
  /\ pathDelta[id] # delta
  /\ pathDelta' = [pathDelta EXCEPT ![id] = delta]
  /\ calls' = <<>>
  /\ lastOp' = Op("mutatePath", "none", "", EmptyProps, EmptyProps,
                  Machine(NoInstance, NoActive, Identity))
  /\ UNCHANGED <<inst, props, pooledTransform, active, childNodes, components>>


----------------------------------------------------------------------------
(* Event listeners: property sets that differ in their listeners only *)

MaxListener == 2

ListenerProps == {EVENT_TYPES[j].prop : j \in DOMAIN EVENT_TYPES}

ListenerFns == {Fn(j) : j \in 1..MaxListener}

\* one listener alone (a function on each kind; an object with handleEvent
\* and null on click), all six at once, and click together with mousemove
PropsEvents ==
  {EmptyProps}
  \cup {PropsOf(k :> v) : k \in ListenerProps, v \in ListenerFns}
  \cup {PropsOf("onClick" :> v) : v \in {HandlerObj(1), Null, Bool(TRUE)}}
  \cup {[k \in PropNames |-> IF k \in ListenerProps THEN Fn(1) ELSE Undefined]}
  \cup {PropsOf(("onClick" :> Fn(1)) @@ ("onMouseMove" :> v)) :
          v \in ListenerFns \cup {Null}}

EventKinds == {"Group", "Shape"}

NextEvents ==
  \/ \E n \in Nodes, t \in EventKinds, p \in PropsEvents :
       CreateInstance(n, t, p)
  \/ \E n \in Nodes, p \in PropsEvents : CommitUpdate(n, inst[n].type, p)
  \/ \E n \in Nodes : AppendChildToContainer(n)
  \/ \E n \in Nodes : RemoveChild(n)
  \/ \E n \in Nodes : RemoveChildFromContainer(n)
  \/ \E n \in Nodes, e \in EventNames : Deliver(n, e)

SpecEvents == Init /\ [][NextEvents]_vars


----------------------------------------------------------------------------
(* Transforms: property sets that differ in position, rotation and scale *)

MaxCoord == 1
MaxScale == 2

\* a per-axis scale: absent, 0, ..., MaxScale
AxisScales == {Undefined} \cup {Num(j) : j \in {0, MaxScale}}
\* the shared scale: absent, null, or a value no axis uses
SharedScales == {Undefined, Null, Num(MaxScale + 3)}

Translation(x, y) == TransformObj(1, 0, 0, 1, x, y)

PropsTransform ==
  {PropsOf(("scaleX" :> a) @@ ("scaleY" :> b) @@ ("scale" :> c)) :
     a \in AxisScales, b \in AxisScales \ {Num(0)}, c \in SharedScales}
  \cup {PropsOf(("x" :> Num(a)) @@ ("y" :> b)) :
          a \in 0..MaxCoord, b \in {Undefined, Num(MaxCoord)}}
  \cup {PropsOf("rotation" :> Num(0)),
        PropsOf("rotation" :> Null),
        PropsOf(("rotation" :> Num(0)) @@ ("originX" :> Num(1))),
        PropsOf(("rotation" :> Num(0)) @@ ("originX" :> Num(1))
                @@ ("originY" :> Num(1))),
        PropsOf(("scale" :> Num(MaxScale)) @@ ("originX" :> Num(1))
                @@ ("originY" :> Num(1))),
        PropsOf("transform" :> Null),
        PropsOf("transform" :> Translation(MaxCoord, 0)),
        PropsOf(("x" :> Num(1)) @@ ("rotation" :> Num(0))
                @@ ("scale" :> Num(MaxScale))
                @@ ("transform" :> Translation(MaxCoord, 0)))}

TransformKinds == {"Group"}

NextTransform ==
  \/ \E n \in Nodes, t \in TransformKinds, p \in PropsTransform :
       CreateInstance(n, t, p)
  \/ \E n \in Nodes, p \in PropsTransform : CommitUpdate(n, inst[n].type, p)
  \/ \E n \in Nodes : AppendChildToContainer(n)
  \/ \E n \in Nodes : RemoveChildFromContainer(n)

SpecTransform == Init /\ [][NextTransform]_vars

----------------------------------------------------------------------------
(* Fills: property sets of a drawable node that differ in their fill *)

MaxStop == 1

\* the constructor arguments of the three descriptors
LinearArgs == <<ArrayOf(<<Str("#000"), Str("#fff")>>), Num(0), Num(0), Num(MaxStop), Num(0)>>
RadialArgs == <<ArrayOf(<<Str("#000"), Str("#fff")>>), Num(0), Num(0), Num(MaxStop), Num(MaxStop), Num(0), Num(0)>>
PatternArgs == <<Str("a.png"), Num(MaxStop), Num(MaxStop), Num(0), Num(0)>>

\* two LinearGradient objects built from the same arguments are two fills
FillValues ==
  {Undefined, Null, Str("red"), Str("blue"),
   LinearGradient(1, LinearArgs), LinearGradient(2, LinearArgs),
   RadialGradient(3, RadialArgs), Pattern(4, PatternArgs)}

PropsFill == {PropsOf(("d" :> PathObj("pathA")) @@ ("fill" :> f)) : f \in FillValues}

FillKinds == {"Shape", "Text"}

NextFill ==
  \/ \E n \in Nodes, t \in FillKinds, p \in PropsFill : CreateInstance(n, t, p)
  \/ \E n \in Nodes, p \in PropsFill : CommitUpdate(n, inst[n].type, p)
  \/ \E n \in Nodes : AppendChildToContainer(n)
  \/ \E n \in Nodes : RemoveChild(n)

SpecFill == Init /\ [][NextFill]_vars

----------------------------------------------------------------------------
(* Shapes: property sets that differ in path, size and stroke *)

MaxDelta == 1
MaxWidth == 2

Red2(path) ==
  PropsOf(("d" :> path) @@ ("stroke" :> Str("red")) @@ ("strokeWidth" :> Num(2)))

PropsShape ==
  {EmptyProps}
  \cup {Red2(PathObj(i)) : i \in PathIds}
  \cup {PropsOf("d" :> PathObj(i)) : i \in PathIds}
  \cup {PropsOf(("d" :> PathObj("pathA")) @@ ("width" :> Num(w))) : w \in 1..MaxWidth}
  \cup {PropsOf(("d" :> PathObj("pathA")) @@ ("height" :> Num(MaxWidth))),
        PropsOf(("d" :> PathObj("pathA")) @@ ("children" :> Str("M1"))),
        PropsOf(("d" :> PathObj("pathA")) @@ ("stroke" :> Str("red"))
                @@ ("strokeWidth" :> Num(3))),
        PropsOf("d" :> Str("M1")),
        PropsOf("children" :> Str("M1")),
        PropsOf("children" :> ArrayOf(<<Str("M"), Num(1)>>))}

DeltaValues == {Undefined} \cup {Num(j) : j \in 1..MaxDelta}

ShapeKinds == {"Shape"}

NextShape ==
  \/ \E n \in Nodes, t \in ShapeKinds, p \in PropsShape : CreateInstance(n, t, p)
  \/ \E n \in Nodes, p \in PropsShape : CommitUpdate(n, inst[n].type, p)
  \/ \E n \in Nodes : RemoveChild(n)
  \/ \E i \in PathIds, v \in DeltaValues : MutatePath(i, v)

SpecShape == Init /\ [][NextShape]_vars

----------------------------------------------------------------------------
(* Texts: property sets that differ in string, font, alignment and path *)

MaxFont == 2

\* font objects 1..MaxFont are distinct objects with the same five fields
BaseFont(id) == FontObj(id, Num(12), Str("normal"), Str("normal"), Str("normal"), Str("Arial"))

FontFieldSeq == <<"fontSize", "fontStyle", "fontVariant", "fontWeight", "fontFamily">>

\* a further object that differs from them in the one field FontFieldSeq[j]
VariantFont(j) ==
  [BaseFont(MaxFont + j) EXCEPT
     ![FontFieldSeq[j]] = IF j = 1 THEN Num(14) ELSE Str("other")]

FontValues ==
  {BaseFont(id) : id \in 1..MaxFont}
  \cup {VariantFont(j) : j \in DOMAIN FontFieldSeq}
  \cup {Str("12px Arial"), Undefined, Null}

TextWith(font) == PropsOf(("children" :> Str("hi")) @@ ("font" :> font))

PropsText ==
  {TextWith(f) : f \in FontValues}
  \cup {PropsOf(("children" :> Str("ho")) @@ ("font" :> BaseFont(1))),
        PropsOf(("children" :> ArrayOf(<<Str("h"), Str("i")>>))
                @@ ("font" :> BaseFont(1))),
        PropsOf(("children" :> Str("hi")) @@ ("font" :> BaseFont(1))
                @@ ("alignment" :> Str("center"))),
        PropsOf(("children" :> Str("hi")) @@ ("font" :> BaseFont(1))
                @@ ("path" :> PathObj("pathA")))}

TextKinds == {"Text"}

NextText ==
  \/ \E n \in Nodes, t \in TextKinds, p \in PropsText : CreateInstance(n, t, p)
  \/ \E n \in Nodes, p \in PropsText : CommitUpdate(n, inst[n].type, p)
  \/ \E n \in Nodes : RemoveChild(n)

SpecText == Init /\ [][NextText]_vars

----------------------------------------------------------------------------
(* Every kind of node under property sets that use every property *)

\* three full property sets with no value in common, and the property sets
\* that keep one group of the first and leave the rest absent
FullA ==
  PropsOf(("x" :> Num(MaxCoord)) @@ ("y" :> Num(0)) @@ ("rotation" :> Num(0))
          @@ ("originX" :> Num(1)) @@ ("originY" :> Num(1))
          @@ ("scale" :> Num(MaxScale)) @@ ("cursor" :> Str("pointer"))
          @@ ("title" :> Str("a")) @@ ("opacity" :> Num(0))
          @@ ("visible" :> Bool(FALSE)) @@ ("onClick" :> Fn(1))
          @@ ("onMouseMove" :> HandlerObj(1)) @@ ("fill" :> Str("red"))
          @@ ("stroke" :> Str("red")) @@ ("strokeWidth" :> Num(2))
          @@ ("strokeCap" :> Str("round")) @@ ("strokeJoin" :> Str("bevel"))
          @@ ("strokeDash" :> ArrayOf(<<Num(1), Num(2)>>))
          @@ ("d" :> PathObj("pathA")) @@ ("children" :> Str("hi"))
          @@ ("width" :> Num(MaxWidth)) @@ ("height" :> Num(MaxWidth))
          @@ ("font" :> BaseFont(1)) @@ ("alignment" :> Str("center"))
          @@ ("path" :> PathObj("pathB")))

FullB ==
  PropsOf(("scaleX" :> Num(0)) @@ ("scaleY" :> Num(MaxScale))
          @@ ("transform" :> Translation(MaxCoord, MaxCoord))
          @@ ("title" :> Str("b")) @@ ("opacity" :> Null)
          @@ ("visible" :> Null) @@ ("onClick" :> Fn(MaxListener))
          @@ ("onMouseDown" :> Fn(1))
          @@ ("fill" :> LinearGradient(1, LinearArgs))
          @@ ("stroke" :> Str("blue")) @@ ("d" :> PathObj("pathB"))
          @@ ("children" :> ArrayOf(<<Str("h"), Num(1)>>))
          @@ ("font" :> Str("12px Arial")) @@ ("path" :> PathObj("pathA")))

FullC ==
  PropsOf(("x" :> Null) @@ ("rotation" :> Num(0)) @@ ("scale" :> Num(1))
          @@ ("visible" :> Bool(TRUE)) @@ ("opacity" :> Num(1))
          @@ ("onMouseOver" :> Null)
          @@ ("fill" :> RadialGradient(3, RadialArgs))
          @@ ("children" :> Num(5)) @@ ("width" :> Num(MaxWidth))
          @@ ("font" :> BaseFont(MaxFont)))

Groups ==
  {{"x", "y", "rotation", "originX", "originY", "scale"},
   {"cursor", "title", "opacity", "visible"},
   {"onClick", "onMouseMove"},
   {"fill", "stroke", "strokeWidth", "strokeCap", "strokeJoin", "strokeDash"},
   {"d", "width", "height"},
   {"children", "font", "alignment", "path"}}

PropsAll ==
  {EmptyProps, FullA, FullB, FullC}
  \cup {[k \in PropNames |-> IF k \in g THEN FullA[k] ELSE Undefined] : g \in Groups}

Next ==
  \/ \E n \in Nodes, t \in TYPES, p \in PropsAll : CreateInstance(n, t, p)
  \/ \E n \in Nodes, p \in PropsAll : CommitUpdate(n, inst[n].type, p)
  \/ \E n \in Nodes : AppendChildToContainer(n)
  \/ \E n \in Nodes : RemoveChild(n)
  \/ \E n \in Nodes : RemoveChildFromContainer(n)
  \/ \E i \in PathIds, v \in DeltaValues : MutatePath(i, v)

Spec == Init /\ [][Next]_vars

----------------------------------------------------------------------------
(* Kinds: createInstance with kinds the switch has no case for, and        *)
(* commitUpdate handed any of the four kinds, whatever the node's kind is  *)

OtherKinds == {"Circle", "group"}

PropsKinds == {EmptyProps, FullA, FullB}

NextKinds ==
  \/ \E n \in Nodes, t \in TYPES \cup OtherKinds, p \in PropsKinds :
       CreateInstance(n, t, p)
  \/ \E n \in Nodes, t \in TYPES, p \in PropsKinds : CommitUpdate(n, t, p)
  \/ \E n \in Nodes : AppendChildToContainer(n)
  \/ \E n \in Nodes : RemoveChild(n)
  \/ \E i \in PathIds, v \in DeltaValues : MutatePath(i, v)

SpecKinds == Init /\ [][NextKinds]_vars

----------------------------------------------------------------------------
(* Strokes: property sets of a drawable node that differ in one of the five *)
(* stroke properties, or in none of them                                    *)

Stroked(o) ==
  PropsOf(("d" :> PathObj("pathA")) @@ ("children" :> Str("hi"))
          @@ ("stroke" :> Str("red")) @@ o)

PropsStroke ==
  {PropsOf(("d" :> PathObj("pathA")) @@ ("children" :> Str("hi")) @@ ("stroke" :> v)) :
     v \in {Undefined, Null, Str("red"), Str("blue")}}
  \cup {Stroked("strokeWidth" :> Num(w)) : w \in 1..MaxWidth}
  \cup {Stroked("strokeCap" :> Str("round")),
        Stroked("strokeJoin" :> Str("bevel")),
        Stroked("strokeDash" :> ArrayObj(1, <<Num(1), Num(2)>>)),
        Stroked("strokeDash" :> ArrayObj(2, <<Num(1), Num(2)>>)),
        Stroked("fill" :> Str("blue")),
        Stroked("opacity" :> Num(0))}

StrokeKinds == {"Shape", "Text"}

NextStroke ==
  \/ \E n \in Nodes, t \in StrokeKinds, p \in PropsStroke : CreateInstance(n, t, p)
  \/ \E n \in Nodes, p \in PropsStroke : CommitUpdate(n, inst[n].type, p)
  \/ \E n \in Nodes : RemoveChild(n)

SpecStroke == Init /\ [][NextStroke]_vars

----------------------------------------------------------------------------
(* The scratch transform: two groups whose applies take turns *)

PoolNodes == {"n1", "n2"}

PropsPool ==
  {EmptyProps,
   PropsOf(("x" :> Num(MaxCoord)) @@ ("y" :> Num(MaxCoord))),
   PropsOf("rotation" :> Num(0)),
   PropsOf("scale" :> Num(MaxScale)),
   PropsOf("transform" :> Translation(MaxCoord, 0)),
   PropsOf(("x" :> Num(MaxCoord)) @@ ("rotation" :> Num(0))
           @@ ("scaleX" :> Num(MaxScale))
           @@ ("transform" :> Translation(0, MaxCoord)))}

InitPool == InitOver(PoolNodes)

NextPool ==
  \/ \E n \in PoolNodes, p \in PropsPool : CreateInstance(n, "Group", p)
  \/ \E n \in PoolNodes, p \in PropsPool : CommitUpdate(n, inst[n].type, p)
  \/ \E n \in PoolNodes : AppendChildToContainer(n)

SpecPool == InitPool /\ [][NextPool]_vars

----------------------------------------------------------------------------
(* The tree: three groups that are appended, inserted, moved and removed *)

TreeNodes == {"n1", "n2", "n3"}

Containers == TreeNodes \cup {Surface}

Texts == {Str("foo"), Str("")}

TreeKinds == {"Group"}

InitTree == InitOver(TreeNodes)

NextTree ==
  \/ \E n \in TreeNodes, t \in TreeKinds : CreateInstance(n, t, EmptyProps)
  \/ \E parent \in TreeNodes, n \in TreeNodes : AppendChild(parent, n)
  \/ \E n \in TreeNodes : AppendChildToContainer(n)
  \/ \E parent \in TreeNodes, child \in Texts \cup {NodeRef(n) : n \in TreeNodes} :
       AppendInitialChild(parent, child)
  \/ \E parent \in Containers, n \in TreeNodes, before \in TreeNodes :
       InsertBefore(parent, n, before)
  \/ \E n \in TreeNodes : RemoveChild(n)
  \/ \E n \in TreeNodes : RemoveChildFromContainer(n)
  \/ \E old \in Texts, new \in Texts : CommitTextUpdate(old, new)
  \/ \E n \in TreeNodes : CommitMount(n)
  \/ \E n \in TreeNodes : ResetTextContent(n)
  \/ \E text \in Texts : CreateTextInstance(text)

SpecTree == InitTree /\ [][NextTree]_vars

----------------------------------------------------------------------------
(* Visibility: the values of visible, truthy, falsy and absent *)

VisibleValues ==
  {Undefined, Null, Bool(TRUE), Bool(FALSE), Num(0), Num(1), Str("")}

PropsVisible == {PropsOf("visible" :> v) : v \in VisibleValues}

VisibleKinds == {"Group", "Shape", "Text"}

NextVisible ==
  \/ \E n \in Nodes, t \in VisibleKinds, p \in PropsVisible : CreateInstance(n, t, p)
  \/ \E n \in Nodes, p \in PropsVisible : CommitUpdate(n, inst[n].type, p)
  \/ \E n \in Nodes : AppendChildToContainer(n)
  \/ \E n \in Nodes : RemoveChildFromContainer(n)

SpecVisible == Init /\ [][NextVisible]_vars

----------------------------------------------------------------------------

(* Removal: two groups with listeners, one appended under the other, removed
   with events still to be delivered *)

PropsRemoval ==
  {EmptyProps, PropsOf("onClick" :> Fn(1)),
   PropsOf(("onClick" :> HandlerObj(1)) @@ ("onMouseOver" :> Fn(MaxListener)))}

RemovalKinds == {"Group"}

InitRemoval == InitOver(PoolNodes)

NextRemoval ==
  \/ \E n \in PoolNodes, t \in RemovalKinds, p \in PropsRemoval :
       CreateInstance(n, t, p)
  \/ \E n \in PoolNodes, p \in PropsRemoval : CommitUpdate(n, inst[n].type, p)
  \/ \E parent \in PoolNodes, n \in PoolNodes : AppendChild(parent, n)
  \/ \E n \in PoolNodes : AppendChildToContainer(n)
  \/ \E n \in PoolNodes : RemoveChild(n)
  \/ \E n \in PoolNodes : RemoveChildFromContainer(n)
  \/ \E n \in PoolNodes, e \in EventNames : Deliver(n, e)
  \/ \E n \in PoolNodes, e \in EventNames : DeliverInFlight(n, e)

SpecRemoval == InitRemoval /\ [][NextRemoval]_vars

----------------------------------------------------------------------------

(* Text leaves: property sets that differ in their children *)

ChildrenValues ==
  {Undefined, Str(""), Str("M1"), Num(0), Num(5),
   ArrayOf(<<Str("M"), Str("1")>>),
   ArrayOf(<<ArrayOf(<<Str("M"), Str("1")>>), Str("Z")>>)}

PropsLeaf == {PropsOf("children" :> c) : c \in ChildrenValues}

LeafKinds == {"Shape", "Text"}

NextLeaf ==
  \/ \E p \in PropsLeaf : ShouldSetTextContent(p)
  \/ \E n \in Nodes, t \in LeafKinds, p \in PropsLeaf : CreateInstance(n, t, p)
  \/ \E n \in Nodes, p \in PropsLeaf : CommitUpdate(n, inst[n].type, p)
  \/ \E n \in Nodes : RemoveChild(n)

SpecLeaf == Init /\ [][NextLeaf]_vars

----------------------------------------------------------------------------

(* Components: a Surface, Shape or Group component is rendered, mounted,
   updated and unmounted while the host config works on a group *)

PropsComponents ==
  {EmptyProps,
   PropsOf(("d" :> PathObj("pathA")) @@ ("stroke" :> Str("red"))
           @@ ("strokeWidth" :> Num(MaxWidth))),
   PropsOf(("d" :> DataObj(1, Str("M0 0"))) @@ ("children" :> Str("hi"))),
   PropsOf(("x" :> Num(MaxCoord)) @@ ("y" :> Num(MaxCoord))
           @@ ("width" :> Num(MaxWidth)) @@ ("height" :> Num(MaxWidth))
           @@ ("onClick" :> Fn(1))),
   PropsOf(("width" :> Num(1)) @@ ("height" :> Null) @@ ("title" :> Str("a")))}

ComponentKinds == {"Surface", "Shape", "Group"}

InitComponents == InitOver(Nodes \cup Components)

NextComponents ==
  \/ \E c \in Components, kind \in ComponentKinds, p \in PropsComponents :
       RenderComponent(c, kind, p)
  \/ \E c \in Components, hasRender \in BOOLEAN, hasDraw \in BOOLEAN :
       ComponentDidMount(c, hasRender, hasDraw)
  \/ \E c \in Components, p \in PropsComponents : ComponentUpdate(c, p)
  \/ \E c \in Components : ComponentWillUnmount(c)
  \/ \E c \in Components : AnimationFrame(c)
  \/ \E n \in Nodes, p \in PropsComponents : CreateInstance(n, "Group", p)
  \/ \E n \in Nodes, p \in PropsComponents : CommitUpdate(n, inst[n].type, p)

SpecComponents == InitComponents /\ [][NextComponents]_vars

----------------------------------------------------------------------------

(* What the claims speak of *)

IsApply(op) == op.op \in {"createInstance", "commitUpdate"}
IsRemoval(op) == op.op \in {"removeChild", "removeChildFromContainer"}

\* how often a backend operation was called by the last operation
CountOp(log, op) == Cardinality({j \in DOMAIN log : log[j].op = op})
CountCall(log, op, args) ==
  Cardinality({j \in DOMAIN log : log[j] = Call(op, args)})

\* C1: at most one active backend subscription per (node, event kind):
\* subscribe calls minus unsubscribe-handle invocations is 0 or 1, whatever
\* sequence of createInstance, commitUpdate and removals has run.
C1_AtMostOneSubscription ==
  \A n \in Nodes : \A e \in EventNames : active[n][e] \in {0, 1}

\* a node that was removed and then updated again holds exactly one
\* subscription for click
C1_Witness ==
  /\ lastOp.op = "commitUpdate"
  /\ Truthy(lastOp.old.onClick)
  /\ Truthy(lastOp.new.onClick)
  /\ CountCall(calls, "subscribe", <<Str("click")>>) = 1
  /\ active[lastOp.node]["click"] = 1

\* C2: between two consecutive applies on a node (no teardown in between),
\* for each of the six kinds: absent -> present issues exactly one subscribe,
\* present -> absent exactly one unsubscribe, and present -> present and
\* absent -> absent issue neither.  The first apply, in createInstance,
\* starts from every listener absent.
C2_SubscriptionSymmetry ==
  [][\A n \in Nodes :
       /\ IsApply(lastOp') /\ lastOp'.node = n /\ inst'[n].exists
       /\ (inst[n].exists => Truthy(inst[n]._listeners))
       => \A j \in DOMAIN EVENT_TYPES :
            LET was == inst[n].exists /\ Truthy(props[n][EVENT_TYPES[j].prop])
                now == Truthy(props'[n][EVENT_TYPES[j].prop])
                type == <<Str(EVENT_TYPES[j].type)>>
            IN /\ CountCall(calls', "subscribe", type)
                    = IF ~was /\ now THEN 1 ELSE 0
               /\ CountCall(calls', "unsubscribe", type)
                    = IF was /\ ~now THEN 1 ELSE 0]_vars

\* click stays present under another listener value while mousemove goes
\* from present to absent: one unsubscribe, for mousemove, and nothing else
C2_Witness ==
  /\ lastOp.op = "commitUpdate"
  /\ lastOp.old.onClick = Fn(1) /\ lastOp.old.onMouseMove = Fn(1)
  /\ lastOp.old.onMouseOver = Fn(1)
  /\ lastOp.new.onClick = Fn(1) /\ lastOp.new.onMouseMove = Null
  /\ lastOp.new.onMouseOver = Undefined
  /\ CountCall(calls, "unsubscribe", <<Str("mousemove")>>) = 1
  /\ CountCall(calls, "unsubscribe", <<Str("mouseover")>>) = 1
  /\ CountOp(calls, "subscribe") = 0
  /\ CountOp(calls, "unsubscribe") = 5

\* C3: removeChild and removeChildFromContainer invoke the unsubscribe handle
\* of every active kind exactly once and of no other kind, clear the node's
\* tables, and only then eject the node; a second removal invokes no handle.
C3_RemovalTearsDown ==
  [][\A n \in Nodes :
       IsRemoval(lastOp') /\ lastOp'.node = n
       => /\ \A e \in EventNames :
               CountCall(calls', "unsubscribe", <<Str(e)>>)
                 = IF active[n][e] > 0 THEN 1 ELSE 0
          /\ calls' # <<>>
          /\ \A j \in DOMAIN calls' :
               calls'[j].op = IF j = Len(calls') THEN "eject" ELSE "unsubscribe"
          /\ inst'[n]._subscriptions = Null
          /\ active'[n] = NoActive
          /\ inst'[n].container = "none"
          /\ (IsRemoval(lastOp) /\ lastOp.node = n => calls' = <<Call("eject", <<>>)>>)]_vars

\* a node with all six kinds subscribed is removed
C3_Witness ==
  /\ lastOp.op = "removeChild"
  /\ CountOp(calls, "unsubscribe") = 6
  /\ calls[7].op = "eject"
  /\ inst[lastOp.node]._subscriptions = Null


\* the node's coefficients before an apply: those of a fresh backend node
\* when the apply is the one createInstance runs
Before(n) == IF inst[n].exists THEN inst[n].transform ELSE Identity

\* the same input is applied to node n twice in a row: this step is an apply
\* on n, and so was the step before it, with the same property values
TwiceInARow(n) ==
  /\ IsApply(lastOp) /\ lastOp.node = n /\ inst[n].exists
  /\ lastOp'.op = "commitUpdate" /\ lastOp'.node = n
  /\ lastOp'.new = lastOp.new

\* C5 (as amended): an apply invokes set-transform (once) if and only if one
\* of the six composed coefficients differs from the node's current one; of
\* two applications of the same input in a row the second never invokes it,
\* so it fires at most once across the two.
C5_SetTransformIffDiffers ==
  [][\A n \in Nodes :
       /\ (IsApply(lastOp') /\ lastOp'.node = n /\ inst'[n].exists =>
             /\ CountOp(calls', "transformTo")
                  = IF SameCoefficients(
                         Before(n),
                         ComposeTransform(lastOp'.new, lastOp'.scaleX,
                                          lastOp'.scaleY))
                    THEN 0 ELSE 1
             /\ inst'[n].transform
                  = ComposeTransform(lastOp'.new, lastOp'.scaleX,
                                     lastOp'.scaleY))
       /\ (TwiceInARow(n) =>
             /\ CountOp(calls', "transformTo") = 0
             /\ CountOp(calls, "transformTo") + CountOp(calls', "transformTo")
                  <= 1)]_vars

\* x = 1, rotation = 0, scale = 2 and an explicit transform were applied
\* twice in a row: the second application set no transform
C5_Witness ==
  /\ lastOp.op = "commitUpdate"
  /\ lastOp.old = lastOp.new
  /\ lastOp.new.rotation = Num(0) /\ lastOp.new.scale = Num(MaxScale)
  /\ lastOp.new.x = Num(1)
  /\ calls = <<>>
  /\ inst[lastOp.node].transform.xx = MaxScale
  /\ inst[lastOp.node].transform # Identity

\* C5 (as claimed): for any input applied twice in a row to a node,
\* set-transform fires exactly once across the two applications.
C5_ExactlyOnceAcrossTwo ==
  [][\A n \in Nodes :
       TwiceInARow(n) =>
         CountOp(calls, "transformTo") + CountOp(calls', "transformTo") = 1]_vars

\* C10: scaleX resolves to props.scaleX when it is not null/absent (0
\* included), else to props.scale when that is not null/absent, else to 1;
\* scaleY likewise from props.scaleY, independently of scaleX.  Without a
\* rotation or an explicit transform the resolved values are the node's xx
\* and yy.
C10_ScaleResolution ==
  IsApply(lastOp) /\ lastOp.err = "none" =>
    LET p == lastOp.new
    IN /\ lastOp.scaleX =
            IF p.scaleX \notin {Undefined, Null} THEN p.scaleX
            ELSE IF p.scale \notin {Undefined, Null} THEN p.scale
            ELSE Num(1)
       /\ lastOp.scaleY =
            IF p.scaleY \notin {Undefined, Null} THEN p.scaleY
            ELSE IF p.scale \notin {Undefined, Null} THEN p.scale
            ELSE Num(1)
       /\ (~Truthy(p.rotation) /\ IsNullish(p.transform) =>
             /\ inst[lastOp.node].transform.xx = lastOp.scaleX.v
             /\ inst[lastOp.node].transform.yy = lastOp.scaleY.v)

\* scaleX = 0 beside a shared scale of 5: scaleX resolves to 0, scaleY to 5
C10_Witness ==
  /\ lastOp.op = "commitUpdate"
  /\ lastOp.new.scaleX = Num(0)
  /\ lastOp.new.scaleY = Undefined
  /\ lastOp.new.scale = Num(MaxScale + 3)
  /\ lastOp.scaleX = Num(0)
  /\ lastOp.scaleY = Num(MaxScale + 3)
  /\ inst[lastOp.node].transform.xx = 0
  /\ inst[lastOp.node].transform.yy = MaxScale + 3


FillOps == {"fill", "fillLinear", "fillRadial", "fillImage"}

\* the backend fill operation of a descriptor's variant
VariantOp(fill) ==
  CASE fill.cls = "LinearGradient" -> "fillLinear"
    [] fill.cls = "RadialGradient" -> "fillRadial"
    [] fill.cls = "Pattern" -> "fillImage"

IsDescriptor(v) == v.t = "object" /\ v.cls \in {"LinearGradient", "RadialGradient", "Pattern"}

\* C6: after an apply on a drawable node, when the new fill is the old fill
\* no fill operation was invoked; when it differs and is a descriptor, the
\* operation of its variant was invoked, once, with the arguments the
\* descriptor was constructed with; when it differs otherwise, the generic
\* fill was invoked, once, with the new fill value.
C6_FillDispatch ==
  IsApply(lastOp) /\ lastOp.type \in {"Shape", "Text"} =>
    LET new == lastOp.new.fill
        fills == SelectSeq(calls, LAMBDA c : c.op \in FillOps)
    IN IF new = lastOp.old.fill THEN fills = <<>>
       ELSE IF IsDescriptor(new)
            THEN fills = <<Call(VariantOp(new), new._args)>>
       ELSE fills = <<Call("fill", <<new>>)>>

\* C7: an apply on a Shape with the path that was drawn last, its delta
\* marker as cached, and width and height unchanged draws nothing; with the
\* same path and another delta marker it draws exactly once; and after every
\* apply the cached path and delta marker are those of the resolved path of
\* the property set applied.
C7_ShapeRedraw ==
  [][\A n \in Nodes :
       IsApply(lastOp') /\ lastOp'.node = n /\ lastOp'.type = "Shape" =>
         LET p == lastOp'.new
             q == lastOp'.old
             path == IF Truthy(p.d) THEN p.d ELSE Str(childrenAsString(p.children))
             delta == IF path \in {PathObj(i) : i \in PathIds}
                      THEN pathDelta[path.id] ELSE Undefined
             samePath == inst[n].exists /\ path = inst[n]._prevPath
             sameDelta == delta = inst[n]._prevDelta
         IN /\ (samePath /\ sameDelta /\ p.width = q.width /\ p.height = q.height
                  => CountOp(calls', "draw") = 0)
            /\ (samePath /\ ~sameDelta
                  => /\ CountOp(calls', "draw") = 1
                     /\ CountCall(calls', "draw", <<path, p.strokeWidth, p.stroke>>) = 1)
            /\ inst'[n]._prevPath = path
            /\ inst'[n]._prevDelta = delta]_vars

\* the same property set, with the same Path object, is applied again after
\* the path's delta marker moved: one draw, and the new marker is cached
C7_Witness ==
  /\ lastOp.op = "commitUpdate"
  /\ lastOp.old = lastOp.new
  /\ lastOp.new.d = PathObj("pathA")
  /\ pathDelta["pathA"] = Num(1)
  /\ calls = <<Call("draw", <<PathObj("pathA"), Undefined, Undefined>>)>>
  /\ inst[lastOp.node]._prevDelta = Num(1)
  /\ inst[lastOp.node]._prevPath = PathObj("pathA")

ScenarioA == Red2(PathObj("pathA"))
ScenarioB == Red2(PathObj("pathB"))

Draws(log) == SelectSeq(log, LAMBDA c : c.op = "draw")
Strokes(log) == SelectSeq(log, LAMBDA c : c.op = "stroke")

\* C9: createInstance(Shape, {d: pathA, stroke: 'red', strokeWidth: 2}) draws
\* once with (pathA, 2, 'red') and strokes once with ('red', 2, undefined,
\* undefined, undefined); the commitUpdate that follows with the same values
\* neither draws nor strokes; the commitUpdate that follows that with pathB
\* draws once, with pathB, and does not stroke.
C9_ShapeScenario ==
  [][\A n \in Nodes :
       /\ (lastOp'.op = "createInstance" /\ lastOp'.type = "Shape"
           /\ lastOp'.node = n /\ lastOp'.new = ScenarioA =>
             /\ Draws(calls') = <<Call("draw", <<PathObj("pathA"), Num(2), Str("red")>>)>>
             /\ Strokes(calls') = <<Call("stroke", <<Str("red"), Num(2), Undefined,
                                                     Undefined, Undefined>>)>>)
       /\ (lastOp.op = "createInstance" /\ lastOp.type = "Shape"
           /\ lastOp.node = n /\ lastOp.new = ScenarioA
           /\ lastOp'.op = "commitUpdate" /\ lastOp'.node = n
           /\ lastOp'.new = ScenarioA =>
             Draws(calls') = <<>> /\ Strokes(calls') = <<>>)
       /\ (lastOp.op = "commitUpdate" /\ lastOp.type = "Shape"
           /\ lastOp.node = n /\ lastOp.new = ScenarioA /\ lastOp.old = ScenarioA
           /\ lastOp'.op = "commitUpdate" /\ lastOp'.node = n
           /\ lastOp'.new = ScenarioB =>
             /\ Draws(calls') = <<Call("draw", <<PathObj("pathB"), Num(2), Str("red")>>)>>
             /\ Strokes(calls') = <<>>)]_vars

\* the last step of the scenario: pathA replaced by pathB under the same
\* stroke, one draw with pathB and nothing else
C9_Witness ==
  /\ lastOp.op = "commitUpdate" /\ lastOp.type = "Shape"
  /\ lastOp.old = ScenarioA /\ lastOp.new = ScenarioB
  /\ calls = <<Call("draw", <<PathObj("pathB"), Num(2), Str("red")>>)>>
  /\ inst[lastOp.node]._prevPath = PathObj("pathB")


IsFontObject(v) == v.t = "object" /\ v.cls = "Font"

\* the fields in which two font objects differ
FontDiff(a, b) == {f \in FontFields : a[f] # b[f]}

\* the text of a children value that is a string or an array of strings
TextOf(children) ==
  IF children.t = "string" THEN children.v
  ELSE IF children.t = "object" /\ children.cls = "Array"
       THEN JoinItems(children.items)
  ELSE ""

\* C8: on an update of a Text whose string, alignment and layout path are
\* unchanged and whose old and new font are distinct objects: with the five
\* font fields identical nothing is drawn; with any of them different there
\* is exactly one draw, with (string, font, alignment, path) of the new
\* property set.
C8_FontEquality ==
  lastOp.op = "commitUpdate" /\ lastOp.type = "Text"
  /\ IsFontObject(lastOp.old.font) /\ IsFontObject(lastOp.new.font)
  /\ lastOp.old.font.id # lastOp.new.font.id
  /\ TextOf(lastOp.old.children) = TextOf(lastOp.new.children)
  /\ lastOp.old.alignment = lastOp.new.alignment
  /\ lastOp.old.path = lastOp.new.path
  => /\ lastOp.err = "none"
     /\ IF FontDiff(lastOp.old.font, lastOp.new.font) = {}
        THEN CountOp(calls, "draw") = 0
        ELSE Draws(calls) =
               <<Call("draw", <<Str(TextOf(lastOp.new.children)), lastOp.new.font,
                                lastOp.new.alignment, lastOp.new.path>>)>>

\* an update from one font object to another that differs in fontFamily
\* alone, the string given as an array this time: one draw
C8_Witness ==
  /\ lastOp.op = "commitUpdate" /\ lastOp.type = "Text"
  /\ lastOp.old.font = VariantFont(5)
  /\ lastOp.new.font = BaseFont(1)
  /\ lastOp.old.children = Str("hi")
  /\ lastOp.new.children = ArrayOf(<<Str("h"), Str("i")>>)
  /\ calls = <<Call("draw", <<Str("hi"), BaseFont(1), Undefined, Undefined>>)>>


\* C4: for every kind of node and every property set P, a commitUpdate with
\* oldProps = P and newProps equal to P field for field, issued right after P
\* was applied, makes no backend call at all, and leaves the node as it was.
C4_Idempotence ==
  [][\A n \in Nodes :
       TwiceInARow(n) /\ lastOp'.old = lastOp'.new =>
         /\ calls' = <<>>
         /\ lastOp'.err = "none"
         /\ inst'[n] = inst[n]
         /\ active'[n] = active[n]]_vars

\* a Shape on which the first full property set was applied twice in a row
C4_Witness ==
  /\ lastOp.op = "commitUpdate" /\ lastOp.type = "Shape"
  /\ lastOp.old = FullA /\ lastOp.new = FullA
  /\ calls = <<>>
  /\ inst[lastOp.node]._prevPath = PathObj("pathA")
  /\ inst[lastOp.node].transform # Identity
  /\ active[lastOp.node]["click"] = 1
  /\ ~inst[lastOp.node].shown


\* how often node c occurs among the children of all containers
Occurrences(lists, c) ==
  Cardinality({<<k, j>> \in (DOMAIN lists) \X (1..Cardinality(TreeNodes)) :
                 j \in DOMAIN lists[k] /\ lists[k][j] = c})

\* every node is in the list of the container it names as its parent, once,
\* and in no other list
TreeConsistent ==
  \A c \in DOMAIN inst :
    /\ Occurrences(childNodes, c) = IF inst[c].container = "none" THEN 0 ELSE 1
    /\ inst[c].container # "none" =>
         \E j \in DOMAIN childNodes[inst[c].container] :
           childNodes[inst[c].container][j] = c

\* the lists with node c taken out: the order of all other nodes
Others(lists, c) ==
  [k \in DOMAIN lists |-> SelectSeq(lists[k], LAMBDA e : e # c)]

IsLast(list, c) == list # <<>> /\ list[Len(list)] = c

\* C11: appendChild(parent, child) and appendChildToContainer(parent, child)
\* leave child exactly once in the tree, as the last child of parent, whether
\* it had no parent, this parent or another one before, and leave the order
\* of all other nodes as it was; the source ejects the child itself when the
\* parent is the same, and the backend's inject moves it otherwise.
C11_AppendReparents ==
  [][lastOp'.op \in {"appendChild", "appendChildToContainer"} =>
       LET c == lastOp'.node
           parent == lastOp'.parent
       IN /\ lastOp'.err = "none"
          /\ Occurrences(childNodes', c) = 1
          /\ IsLast(childNodes'[parent], c)
          /\ inst'[c].container = parent
          /\ Others(childNodes', c) = Others(childNodes, c)
          /\ calls' = IF inst[c].container = parent
                      THEN <<Call("eject", <<>>), Call("inject", <<Str(parent)>>)>>
                      ELSE <<Call("inject", <<Str(parent)>>)>>
          /\ TreeConsistent']_vars

\* a node that was the child of one group was appended to another group,
\* which had a child already: it is now that group's last child and nowhere
\* else
C11_Witness ==
  /\ lastOp.op = "appendChild"
  /\ lastOp.from \in TreeNodes /\ lastOp.from # lastOp.parent
  /\ Len(childNodes[lastOp.parent]) = 2
  /\ childNodes[lastOp.parent][2] = lastOp.node
  /\ childNodes[lastOp.from] = <<>>
  /\ inst[lastOp.node].container = lastOp.parent

\* C12: insertBefore(parent, n, n) fails, calls nothing and leaves every
\* node's parent and every child order as they were; insertBefore(parent,
\* child, ref) with child # ref puts child right before ref among the
\* children of parent, once, and leaves the order of all other nodes.
C12_InsertBefore ==
  [][lastOp'.op = "insertBefore" =>
       LET c == lastOp'.node
           parent == lastOp'.parent
           ref == lastOp'.before
       IN IF c = ref
          THEN /\ lastOp'.err = "Invariant Violation"
               /\ calls' = <<>>
               /\ childNodes' = childNodes
               /\ inst' = inst
          ELSE /\ lastOp'.err = "none"
               /\ \E j \in DOMAIN childNodes'[parent] :
                    /\ childNodes'[parent][j] = c
                    /\ j + 1 \in DOMAIN childNodes'[parent]
                    /\ childNodes'[parent][j + 1] = ref
               /\ Occurrences(childNodes', c) = 1
               /\ inst'[c].container = parent
               /\ Others(childNodes', c) = Others(childNodes, c)
               /\ TreeConsistent']_vars

\* the last child of the surface was inserted before the second of its three
\* children
C12_Witness ==
  /\ lastOp.op = "insertBefore" /\ lastOp.err = "none"
  /\ lastOp.parent = Surface /\ lastOp.from = Surface
  /\ Len(childNodes[Surface]) = 3
  /\ childNodes[Surface][2] = lastOp.node
  /\ childNodes[Surface][3] = lastOp.before

\* C16: commitTextUpdate, resetTextContent and commitMount change no node,
\* no child list and call nothing; createTextInstance(text) returns text and
\* creates no node; appendInitialChild(parent, child) changes nothing and
\* calls nothing when child is a string, and makes child the last child of
\* parent otherwise.
C16_NoOps ==
  [][/\ (lastOp'.op \in {"commitTextUpdate", "resetTextContent", "commitMount"} =>
          /\ UNCHANGED <<inst, props, active, childNodes, pooledTransform>>
          /\ calls' = <<>>
          /\ lastOp'.err = "none")
     /\ (lastOp'.op = "createTextInstance" =>
          /\ lastOp'.ret = lastOp'.arg
          /\ UNCHANGED <<inst, props, active, childNodes>>
          /\ calls' = <<>>)
     /\ (lastOp'.op = "appendInitialChild" =>
          IF lastOp'.arg.t = "string"
          THEN /\ UNCHANGED <<inst, props, active, childNodes>>
               /\ calls' = <<>>
               /\ lastOp'.err = "none"
          ELSE /\ IsLast(childNodes'[lastOp'.parent], lastOp'.arg.id)
               /\ Occurrences(childNodes', lastOp'.arg.id) = 1
               /\ inst'[lastOp'.arg.id].container = lastOp'.parent
               /\ Others(childNodes', lastOp'.arg.id)
                    = Others(childNodes, lastOp'.arg.id))]_vars

\* the string 'foo' was handed to appendInitialChild under a group that has
\* a child: nothing was called and the group still has that one child
C16_Witness ==
  /\ lastOp.op = "appendInitialChild"
  /\ lastOp.arg = Str("foo")
  /\ calls = <<>>
  /\ Len(childNodes[lastOp.parent]) = 1
  /\ inst[childNodes[lastOp.parent][1]].container = lastOp.parent


\* the applier createInstance binds to a node of each known kind
ApplierOf(kind) ==
  CASE kind = "ClippingRectangle" -> "applyClippingRectangleProps"
    [] kind = "Group" -> "applyGroupProps"
    [] kind = "Shape" -> "applyShapeProps"
    [] kind = "Text" -> "applyTextProps"

\* C13: createInstance with a kind other than ClippingRectangle, Group,
\* Shape and Text fails: no node comes to exist, nothing is called on the
\* backend and no applier runs (the scratch transform, which every applier
\* writes, keeps its value).  With each of the four kinds it succeeds: the
\* backend constructor of that kind is the first call, and the node is bound
\* to that kind's applier.
C13_UnknownKindFails ==
  [][\A n \in Nodes :
       lastOp'.op = "createInstance" /\ lastOp'.node = n =>
         IF lastOp'.type \notin {"ClippingRectangle", "Group", "Shape", "Text"}
         THEN /\ lastOp'.err = "Invariant Violation"
              /\ ~inst'[n].exists
              /\ calls' = <<>>
              /\ UNCHANGED <<inst, props, active, childNodes, pooledTransform>>
         ELSE /\ lastOp'.err = "none"
              /\ inst'[n].exists
              /\ inst'[n]._applyProps = ApplierOf(lastOp'.type)
              /\ calls' # <<>>
              /\ calls'[1].op \in {"Mode.ClippingRectangle", "Mode.Group",
                                   "Mode.Shape", "Mode.Text"}
              /\ calls'[1].op = "Mode." \o lastOp'.type
              /\ props'[n] = lastOp'.new]_vars

\* createInstance('Circle', props) with a full property set has failed: no
\* node, no call
C13_Witness ==
  /\ lastOp.op = "createInstance"
  /\ lastOp.type = "Circle"
  /\ lastOp.new = FullA
  /\ lastOp.err = "Invariant Violation"
  /\ calls = <<>>
  /\ \A n \in Nodes : ~inst[n].exists


DrawOps == {"draw", "fill", "fillLinear", "fillRadial", "fillImage", "stroke"}

\* C15: a node's applier is the one of the kind it was created with, and no
\* operation changes it; commitUpdate(node, kind, oldProps, newProps) runs
\* that applier with (newProps, oldProps) whatever kind is: a group or
\* clipping rectangle takes the new width and height and draws, fills and
\* strokes nothing, a shape draws with (path, strokeWidth, stroke) and a text
\* with (string, font, alignment, path) of newProps, and the cursor and
\* title are indicated, with their new values, exactly when they differ
\* from the old ones.
C15_BoundApplier ==
  [][\A n \in Nodes :
       /\ (inst[n].exists =>
             /\ inst'[n]._applyProps = inst[n]._applyProps
             /\ inst'[n]._applyProps = ApplierOf(inst[n].type))
       /\ (lastOp'.op = "commitUpdate" /\ lastOp'.node = n =>
             LET p == lastOp'.new
                 q == lastOp'.old
                 k == inst[n].type
                 text == Str(TextOf(p.children))
                 path == IF p.d \in {PathObj(i) : i \in PathIds} THEN p.d ELSE text
             IN /\ lastOp'.type \in TYPES
                /\ k \in {"Group", "ClippingRectangle"} =>
                     /\ \A j \in DOMAIN calls' : calls'[j].op \notin DrawOps
                     /\ inst'[n].width = p.width /\ inst'[n].height = p.height
                /\ k = "Shape" =>
                     /\ \A j \in DOMAIN calls' :
                          calls'[j].op = "draw" =>
                            calls'[j].args = <<path, p.strokeWidth, p.stroke>>
                     /\ inst'[n].width = inst[n].width
                     /\ inst'[n]._prevPath = path
                /\ k = "Text" =>
                     /\ \A j \in DOMAIN calls' :
                          calls'[j].op = "draw" =>
                            calls'[j].args = <<text, p.font, p.alignment, p.path>>
                     /\ inst'[n].width = inst[n].width
                     /\ inst'[n]._currentString = text
                /\ SelectSeq(calls', LAMBDA c : c.op = "indicate")
                     = IF p.cursor # q.cursor \/ p.title # q.title
                       THEN <<Call("indicate", <<p.cursor, p.title>>)>>
                       ELSE <<>>)]_vars

\* a group was updated by a commitUpdate that was handed the kind Text: it
\* took the new size and title, and drew nothing
C15_Witness ==
  /\ lastOp.op = "commitUpdate"
  /\ lastOp.type = "Text"
  /\ inst[lastOp.node].type = "Group"
  /\ inst[lastOp.node]._applyProps = "applyGroupProps"
  /\ lastOp.old = FullB /\ lastOp.new = FullA
  /\ inst[lastOp.node].width = Num(MaxWidth)
  /\ CountOp(calls, "draw") = 0
  /\ CountCall(calls, "indicate", <<Str("pointer"), Str("a")>>) = 1


\* the property that holds the listener of an event type
PropFor(type) ==
  EVENT_TYPES[CHOOSE j \in DOMAIN EVENT_TYPES : EVENT_TYPES[j].type = type].prop

\* C14: when the backend delivers an event of kind k to a subscribed node,
\* the listener invoked is the value for k in the property set applied to
\* the node last: a function is called with the event, an object with
\* handleEvent has handleEvent called with the event, any other value is
\* not invoked; there is at most one invocation, and the node is unchanged.
C14_DispatchCurrentListener ==
  [][\A n \in Nodes :
       lastOp'.op = "deliver" /\ lastOp'.node = n =>
         LET k == lastOp'.arg.v
             current == props[n][PropFor(k)]
         IN /\ active[n][k] = 1
            /\ lastOp'.err = "none"
            /\ Len(calls') <= 1
            /\ calls' =
                 IF current \in ListenerFns
                 THEN <<Call("listener.call", <<current, Str(k)>>)>>
                 ELSE IF current = HandlerObj(1)
                 THEN <<Call("listener.handleEvent", <<current, Str(k)>>)>>
                 ELSE <<>>
            /\ inst'[n] = inst[n]
            /\ active'[n] = active[n]]_vars

\* a mousemove is delivered to a node that holds listeners for click and
\* mousemove: the mousemove listener of the last property set, the last of
\* the listener functions, was called, once
C14_Witness ==
  /\ lastOp.op = "deliver"
  /\ lastOp.arg = Str("mousemove")
  /\ props[lastOp.node].onClick = Fn(1)
  /\ props[lastOp.node].onMouseMove = Fn(MaxListener)
  /\ calls = <<Call("listener.call", <<Fn(MaxListener), Str("mousemove")>>)>>
  /\ active[lastOp.node]["mousemove"] = 1


\* a number-valued property, with a default when it is absent
NumberOr(v, d) == IF v.t = "number" THEN v.v ELSE d

\* move by (x, y), then rotate about the origin, then scale: the six
\* coefficients in closed form, from the property set alone
MovedRotatedScaled(p) ==
  LET sx == NumberOr(p.scaleX, NumberOr(p.scale, 1))
      sy == NumberOr(p.scaleY, NumberOr(p.scale, 1))
      deg == NumberOr(p.rotation, 0)
  IN [xx |-> Cos(deg) * sx, yx |-> Sin(deg) * sx,
      xy |-> (0 - Sin(deg)) * sy, yy |-> Cos(deg) * sy,
      x |-> NumberOr(p.x, 0), y |-> NumberOr(p.y, 0)]

\* ... followed by the explicit transform of the property set, a translation
ClosedForm(p) ==
  LET a == MovedRotatedScaled(p)
  IN IF p.transform.t = "object"
     THEN [a EXCEPT !.x = a.x + a.xx * p.transform.m.x + a.xy * p.transform.m.y,
                    !.y = a.y + a.yx * p.transform.m.x + a.yy * p.transform.m.y]
     ELSE a

\* C17: after every apply, on whichever node and after whichever earlier
\* applies on this or another node, the scratch transform and the node's
\* coefficients are those the new property set of this apply alone
\* determines, and a set-transform call carries exactly those.
C17_ScratchOverwritten ==
  [][\A n \in PoolNodes :
       IsApply(lastOp') /\ lastOp'.node = n =>
         /\ pooledTransform' = ClosedForm(lastOp'.new)
         /\ inst'[n].transform = ClosedForm(lastOp'.new)
         /\ \A j \in DOMAIN calls' :
              calls'[j].op = "transformTo" =>
                calls'[j].args = Coefficients(ClosedForm(lastOp'.new))]_vars

\* a group was given a scale alone while the other group holds a scale on
\* one axis, a translation and an explicit transform: it has the scale and
\* nothing of the other group's transform
C17_Witness ==
  /\ IsApply(lastOp) /\ lastOp.node = "n2"
  /\ lastOp.new = PropsOf("scale" :> Num(MaxScale))
  /\ props["n1"].scaleX = Num(MaxScale) /\ props["n1"].transform = Translation(0, MaxCoord)
  /\ inst["n1"].transform # Identity
  /\ inst["n2"].transform = [Identity EXCEPT !.xx = MaxScale, !.yy = MaxScale]
  /\ pooledTransform = inst["n2"].transform


\* two font values that are not the same font: one of them is a font object
\* and the other is absent, null, a string, or an object that differs from
\* it in one of the five fields; or they are two different strings
FontsDiffer(a, b) ==
  IF IsFontObject(a) /\ IsFontObject(b) THEN FontDiff(a, b) # {}
  ELSE a # b

\* C18: every update of a Text in which the string, the font, the alignment
\* or the layout path differs between the old and the new property set, the
\* font being absent or null in one and a font object in the other
\* included, completes without error and draws exactly once, with (string,
\* font, alignment, path) of the new property set.
C18_TextUpdateDraws ==
  lastOp.op = "commitUpdate" /\ lastOp.type = "Text"
  /\ (\/ TextOf(lastOp.old.children) # TextOf(lastOp.new.children)
      \/ FontsDiffer(lastOp.old.font, lastOp.new.font)
      \/ lastOp.old.alignment # lastOp.new.alignment
      \/ lastOp.old.path # lastOp.new.path)
  => /\ lastOp.err = "none"
     /\ Draws(calls) =
          <<Call("draw", <<Str(TextOf(lastOp.new.children)), lastOp.new.font,
                           lastOp.new.alignment, lastOp.new.path>>)>>


\* the concatenation, in order, of the items that are strings
RECURSIVE StringsOf(_)
StringsOf(items) ==
  IF items = <<>> THEN ""
  ELSE (IF Head(items).t = "string" THEN Head(items).v ELSE "")
       \o StringsOf(Tail(items))

\* the text of children, counting its string-valued children only
StringChildren(children) ==
  IF children.t = "string" THEN children.v
  ELSE IF children.t = "object" /\ children.cls = "Array"
       THEN StringsOf(children.items)
  ELSE ""

\* C19: the path a Shape draws and caches is props.d when d is provided,
\* else the text resolved from children: the concatenation, in order, of the
\* string-valued children only, non-string children contributing nothing
\* and absent children giving the empty string.
C19_ResolvedPath ==
  IsApply(lastOp) /\ lastOp.type = "Shape" =>
    LET p == lastOp.new
        path == IF ~IsNullish(p.d) THEN p.d ELSE Str(StringChildren(p.children))
    IN /\ inst[lastOp.node]._prevPath = path
       /\ \A j \in DOMAIN calls :
            calls[j].op = "draw" => calls[j].args[1] = path


StrokeProps == <<"stroke", "strokeWidth", "strokeCap", "strokeJoin", "strokeDash">>

\* C20: an apply on a Shape or Text invokes the backend stroke operation if
\* and only if one of stroke, strokeWidth, strokeCap, strokeJoin, strokeDash
\* is not the same value (for an array: not the same array) in the old and
\* the new property set, and then invokes it once, with the five new values
\* in that order.
C20_StrokeIffDiffers ==
  IsApply(lastOp) /\ lastOp.type \in {"Shape", "Text"} =>
    Strokes(calls) =
      IF \E j \in DOMAIN StrokeProps :
           lastOp.old[StrokeProps[j]] # lastOp.new[StrokeProps[j]]
      THEN <<Call("stroke", [j \in DOMAIN StrokeProps |-> lastOp.new[StrokeProps[j]]])>>
      ELSE <<>>

\* the dash pattern was replaced by another array of the same contents: one
\* stroke call, with the new array
C20_Witness ==
  /\ lastOp.op = "commitUpdate"
  /\ lastOp.old.strokeDash = ArrayObj(1, <<Num(1), Num(2)>>)
  /\ lastOp.new.strokeDash = ArrayObj(2, <<Num(1), Num(2)>>)
  /\ calls = <<Call("stroke", <<Str("red"), Undefined, Undefined, Undefined,
                                ArrayObj(2, <<Num(1), Num(2)>>)>>)>>


\* the operations of the property groups of a kind of node
Drawable(type) == type \in {"Shape", "Text"}

\* a property of the list is given in the property set (it is not undefined)
Given(p, names) == \E k \in names : p[k] # Undefined

\* the number of backend calls of an apply whose operation is in ops
CountOps(log, ops) == Cardinality({j \in DOMAIN log : log[j].op \in ops})

\* the number of calls an apply against {} makes for a group of properties
OnceIfGiven(p, names) == IF Given(p, names) THEN 1 ELSE 0

\* C21 as stated: for every initial property set, a creation that completes
\* issues each of indicate, blend and show-or-hide exactly once, and on a
\* Shape or Text also each of fill, stroke and draw exactly once.
C21_CreationAppliesAll ==
  lastOp.op = "createInstance" /\ lastOp.err = "none" =>
    /\ CountOp(calls, "indicate") = 1
    /\ CountOp(calls, "blend") = 1
    /\ CountOps(calls, {"show", "hide"}) = 1
    /\ Drawable(lastOp.type) =>
         /\ CountOps(calls, FillOps) = 1
         /\ CountOp(calls, "stroke") = 1
         /\ CountOp(calls, "draw") = 1

\* C21, amended: a creation that completes issues the operation of a
\* property group exactly once when a property of the group is given in the
\* initial property set (it differs from the undefined of {}), and not at
\* all when none is: indicate for cursor or title, blend for opacity,
\* show-or-hide for visible, and on a Shape or Text fill for fill and stroke
\* for the five stroke properties; a Shape or Text is drawn exactly once
\* whatever the initial property set.
C21_CreationAppliesGiven ==
  lastOp.op = "createInstance" /\ lastOp.err = "none" =>
    /\ CountOp(calls, "indicate") = OnceIfGiven(lastOp.new, {"cursor", "title"})
    /\ CountOp(calls, "blend") = OnceIfGiven(lastOp.new, {"opacity"})
    /\ CountOps(calls, {"show", "hide"}) = OnceIfGiven(lastOp.new, {"visible"})
    /\ CountOps(calls, FillOps) =
         IF Drawable(lastOp.type) THEN OnceIfGiven(lastOp.new, {"fill"}) ELSE 0
    /\ CountOp(calls, "stroke") =
         IF Drawable(lastOp.type)
         THEN OnceIfGiven(lastOp.new, {"stroke", "strokeWidth", "strokeCap",
                                       "strokeJoin", "strokeDash"})
         ELSE 0
    /\ CountOp(calls, "draw") = IF Drawable(lastOp.type) THEN 1 ELSE 0

\* a Shape created from a property set that gives cursor, title, opacity and
\* visible and nothing else: one indicate, one blend, one hide and one draw,
\* and no fill or stroke
C21_Witness ==
  /\ lastOp.op = "createInstance" /\ lastOp.type = "Shape"
  /\ lastOp.err = "none"
  /\ lastOp.new.cursor = Str("pointer") /\ lastOp.new.visible = Bool(FALSE)
  /\ lastOp.new.fill = Undefined /\ lastOp.new.stroke = Undefined
  /\ CountOp(calls, "indicate") = 1 /\ CountOp(calls, "blend") = 1
  /\ CountOp(calls, "hide") = 1 /\ CountOp(calls, "draw") = 1
  /\ CountOps(calls, {"show", "stroke"} \cup FillOps) = 0


\* the visibility a property set declares: null and absent count as visible
EffectiveVisible(p) == IsNullish(p.visible) \/ Truthy(p.visible)

\* C22: an apply invokes show or hide only when visible differs between the
\* old and the new property set, and then exactly one of them: show when the
\* new value is null, absent or truthy, hide otherwise; and a node that
\* starts shown is, after any sequence of createInstance and commitUpdate,
\* shown in the backend exactly when its latest property set declares it
\* visible.
C22_VisibilityInSync ==
  /\ IsApply(lastOp) /\ lastOp.err = "none" =>
       /\ CountOps(calls, {"show", "hide"}) =
            IF lastOp.new.visible # lastOp.old.visible THEN 1 ELSE 0
       /\ CountOp(calls, "show") > 0 => EffectiveVisible(lastOp.new)
       /\ CountOp(calls, "hide") > 0 => ~EffectiveVisible(lastOp.new)
  /\ \A n \in Nodes :
       inst[n].exists => inst[n].shown = EffectiveVisible(props[n])

\* a hidden node is updated from visible: false to visible: null: show is
\* invoked and the node is shown again
C22_Witness ==
  /\ lastOp.op = "commitUpdate"
  /\ lastOp.old.visible = Bool(FALSE) /\ lastOp.new.visible = Null
  /\ CountOp(calls, "show") = 1 /\ CountOp(calls, "hide") = 0
  /\ inst[lastOp.node].shown


\* the centre the origin properties name: (0, 0) unless both are given
OriginOf(p) ==
  IF IsNullish(p.originX) \/ IsNullish(p.originY)
  THEN <<0, 0>>
  ELSE <<p.originX.v, p.originY.v>>

\* scale by (sx, sy) about the centre c
ScaledAbout(m, sx, sy, c) ==
  Transform_translate(
    Transform_scale(Transform_translate(m, c[1], c[2]), sx, sy),
    0 - c[1], 0 - c[2])

\* identity, translated by (x or 0, y or 0), rotated about the origin, scaled
\* by (sx, sy) about the origin
TranslatedRotatedScaledAbout(p, sx, sy) ==
  ScaledAbout(
    Transform_rotate(
      Transform_translate(Identity, NumOrZero(p.x), NumOrZero(p.y)),
      NumOrZero(p.rotation), p.originX, p.originY),
    sx, sy, OriginOf(p))

\* ... with the explicit transform, when one is supplied, post-multiplied
FixedOrder(p, sx, sy) ==
  IF IsNullish(p.transform)
  THEN TranslatedRotatedScaledAbout(p, sx, sy)
  ELSE Transform_transform(TranslatedRotatedScaledAbout(p, sx, sy), p.transform.m)

\* C23: the transform an apply composes and leaves on the node is: identity,
\* translated by (x or 0, y or 0), rotated by (rotation or 0) about
\* (originX, originY), scaled by the resolved (scaleX, scaleY) about
\* (originX, originY), and post-multiplied by the explicit transform when
\* one is supplied; with rotation 0, scale 1 and no explicit transform it is
\* the translation (1, 0, 0, 1, x or 0, y or 0).
C23_FixedOrder ==
  IsApply(lastOp) /\ lastOp.err = "none" =>
    /\ pooledTransform = FixedOrder(lastOp.new, lastOp.scaleX.v, lastOp.scaleY.v)
    /\ inst[lastOp.node].transform = pooledTransform
    /\ (/\ NumOrZero(lastOp.new.rotation) = 0
        /\ lastOp.scaleX.v = 1 /\ lastOp.scaleY.v = 1
        /\ IsNullish(lastOp.new.transform))
       => pooledTransform =
            [Identity EXCEPT !.x = NumOrZero(lastOp.new.x),
                             !.y = NumOrZero(lastOp.new.y)]


\* C24: from a completed apply on a node until its next apply or removal,
\* for each of the six event kinds a backend subscription is active exactly
\* when the listener recorded for the kind in the node's listener table is
\* truthy, and the recorded listener is the listener value of the property
\* set applied last.
C24_SubscriptionIffListener ==
  \A n \in Nodes :
    inst[n].exists /\ Truthy(inst[n]._listeners) =>
      \A e \in EventNames :
        /\ (active[n][e] > 0) = Truthy(inst[n]._listeners.m[e])
        /\ HasKey(inst[n]._subscriptions.keys, e) = Truthy(inst[n]._listeners.m[e])
        /\ inst[n]._listeners.m[e] = props[n][PropFor(e)]

\* an update took the click listener away while the mousemove listener
\* stayed: click has neither entry nor subscription, mousemove has both
C24_Witness ==
  /\ lastOp.op = "commitUpdate" /\ lastOp.err = "none"
  /\ Truthy(lastOp.old.onClick) /\ ~Truthy(lastOp.new.onClick)
  /\ Truthy(lastOp.new.onMouseMove)
  /\ active[lastOp.node]["click"] = 0
  /\ active[lastOp.node]["mousemove"] = 1
  /\ inst[lastOp.node]._listeners.m["mousemove"] = lastOp.new.onMouseMove


\* C25: after removeChild or removeChildFromContainer of a child, neither
\* the child nor any node below it has an active backend subscription.
C25_RemovedSubtreeUnsubscribed ==
  IsRemoval(lastOp) =>
    \A n \in DOMAIN inst :
      inst[n].exists /\ Within(n, lastOp.node) =>
        \A e \in EventNames : active[n][e] = 0

\* C26: a dispatcher called while no listener is present for the kind of the
\* event makes no call and raises no error, in every state of the node, a
\* delivery of an event in flight after the subscriptions of the node were
\* torn down included.
C26_DispatchWithoutListenerIsNoop ==
  /\ lastOp.op \in {"deliver", "deliverInFlight"}
  /\ \/ IsNullish(inst[lastOp.node]._listeners)
     \/ ~Truthy(inst[lastOp.node]._listeners.m[lastOp.arg.v])
  => lastOp.err = "none" /\ calls = <<>>


\* what a draw of a Shape is handed for a property set
DrawnOf(p) == <<ResolvedPath(p), p.strokeWidth, p.stroke>>

\* C27: after any sequence of createInstance and commitUpdate on a Shape,
\* the arguments of the most recent draw are (resolved path, strokeWidth,
\* stroke) of the property set applied last. Step by step: an apply either
\* draws, last with the three values of its new property set, or draws
\* nothing and its new property set has the three values of the old one, for
\* which the most recent draw was made.
C27_DrawnStateCurrent ==
  IsApply(lastOp) /\ lastOp.type = "Shape" /\ lastOp.err = "none" =>
    IF Draws(calls) # <<>>
    THEN Draws(calls)[Len(Draws(calls))].args = DrawnOf(lastOp.new)
    ELSE DrawnOf(lastOp.new) = DrawnOf(lastOp.old)


\* the text an applier has resolved from children and left on the node:
\* the string of a Text, the path of a Shape that is given no path data
ResolvedText(n) ==
  IF inst[n].type = "Text" THEN inst[n]._currentString ELSE inst[n]._prevPath

\* C28: for every property set for which shouldSetTextContent returns true,
\* children being a single string or a single number, the text the Shape and
\* Text appliers resolve from children is the textual form of that child.
C28_TextLeafResolves ==
  /\ IsApply(lastOp) /\ lastOp.err = "none"
  /\ lastOp.type \in {"Shape", "Text"} /\ lastOp.new.d = Undefined
  /\ shouldSetTextContent(Machine(NoInstance, NoActive, Identity), lastOp.new).ret
       = Bool(TRUE)
  => ResolvedText(lastOp.node) = Str(JoinText(lastOp.new.children))

============================================================================
